---- MODULE Spec2Model ----
(***************************************************************************)
(* A model of the rql parser (package rql): the schema built by NewParser  *)
(* from a model struct, and Parser.ParseQuery with its recursive filter    *)
(* compiler, sort builder and paging checks.                               *)
(*                                                                         *)
(* Go strings are sequences of one-character strings, so that indexing     *)
(* (field[0], opName[1:]), prefix tests and separator replacement are      *)
(* computed as the code computes them.  A Go map is a sequence of          *)
(* <<key, value>> pairs with distinct keys; the order in which `range`     *)
(* visits it is chosen nondeterministically by ParseQuery.                 *)
(***************************************************************************)
EXTENDS Integers, Sequences, FiniteSets, TLC

VARIABLES
    cfg,      \* the Config the parser was built from (after defaults())
    fields,   \* Parser.fields: the schema built by NewParser
    q,        \* the decoded *Query handed to ParseQuery
    pc,       \* "ready" before the call, "done" after it
    ret,      \* what ParseQuery returned: [kind, pr, err]
    visit,    \* the filter as `range` visited it during the call
    pool,     \* parseStatePool: the parse states put back so far
    newErr,   \* the error NewParser returned, "" for none
    mem,      \* concurrent calls: the parse states and value arrays allocated, the pool
    gor,      \* concurrent calls: each goroutine's position, locals and results
    todo      \* Parser.init: the list l of struct fields still to scan

vars == <<cfg, fields, q, pc, ret, visit, pool, newErr, mem, gor, todo>>

-----------------------------------------------------------------------------
(* Bounds of the model. *)

\* largest number of entries in one filter object
MaxKeys == 2
\* largest number of documents in one $or / $and array
MaxTerms == 2
\* largest number of operator entries in one operator object
MaxOps == 2
\* largest number of entries in a sort or select list
MaxSort == 3
\* largest |offset| and the distance past LimitMaxValue that limit is drawn from
MaxPage == 1
\* largest number of concurrent-or-successive calls all goroutines make together
MaxCalls == 3

-----------------------------------------------------------------------------
(* Strings. *)

Upper == <<"A","B","C","D","E","F","G","H","I","J","K","L","M",
           "N","O","P","Q","R","S","T","U","V","W","X","Y","Z">>
Lower == <<"a","b","c","d","e","f","g","h","i","j","k","l","m",
           "n","o","p","q","r","s","t","u","v","w","x","y","z">>

Range(s) == {s[i] : i \in DOMAIN s}

\* unicode.IsUpper / IsLower / IsLetter on the ASCII bytes the model uses
IsUpper(c) == c \in Range(Upper)
IsLower(c) == c \in Range(Lower)
IsLetter(c) == IsUpper(c) \/ IsLower(c)
ToLower(c) ==
    IF IsUpper(c) THEN Lower[CHOOSE i \in DOMAIN Upper : Upper[i] = c] ELSE c

\* s[from:] with 0-based `from`, as Go slices a string; the caller guards from <= len(s)
SliceFrom(s, from) == SubSeq(s, from + 1, Len(s))

HasPrefixAt(s, i, p) ==
    /\ i + Len(p) - 1 <= Len(s)
    /\ SubSeq(s, i, i + Len(p) - 1) = p

\* strings.Replace(s, old, new, -1) for a non-empty old
RECURSIVE ReplaceFrom(_, _, _, _)
ReplaceFrom(s, i, old, new) ==
    IF i > Len(s) THEN <<>>
    ELSE IF HasPrefixAt(s, i, old)
         THEN new \o ReplaceFrom(s, i + Len(old), old, new)
         ELSE <<s[i]>> \o ReplaceFrom(s, i + 1, old, new)

ReplaceAll(s, old, new) == ReplaceFrom(s, 1, old, new)

\* strings.Join(list, sep)
RECURSIVE Join(_, _)
Join(list, sep) ==
    IF Len(list) = 0 THEN <<>>
    ELSE IF Len(list) = 1 THEN list[1]
    ELSE list[1] \o sep \o Join(Tail(list), sep)

\* the number of occurrences of the character c in s
RECURSIVE Count(_, _)
Count(s, c) ==
    IF Len(s) = 0 THEN 0
    ELSE (IF s[1] = c THEN 1 ELSE 0) + Count(Tail(s), c)

-----------------------------------------------------------------------------
(* Operators and defaults (config.go). *)

EQ   == <<"e","q">>
NEQ  == <<"n","e","q">>
LT   == <<"l","t">>
GT   == <<"g","t">>
LTE  == <<"l","t","e">>
GTE  == <<"g","t","e">>
LIKE == <<"l","i","k","e">>
OR   == <<"o","r">>
AND  == <<"a","n","d">>

ASC  == "+"
DESC == "-"

DefaultOpPrefix == <<"$">>
DefaultFieldSep == <<"_">>
DefaultLimit == 25
DefaultMaxLimit == 100

opFormat ==
    [o \in {EQ, NEQ, LT, GT, LTE, GTE, LIKE, OR, AND} |->
        CASE o = EQ   -> <<"=">>
          [] o = NEQ  -> <<"<", ">">>
          [] o = LT   -> <<"<">>
          [] o = GT   -> <<">">>
          [] o = LTE  -> <<"<", "=">>
          [] o = GTE  -> <<">", "=">>
          [] o = LIKE -> <<"L","I","K","E">>
          [] o = OR   -> <<"O","R">>
          [] o = AND  -> <<"A","N","D">>]

sortDirection ==
    [d \in {ASC, DESC} |-> IF d = ASC THEN <<"a","s","c">> ELSE <<"d","e","s","c">>]

\* the parser's operator rendering: the catalog's text, "" for an unknown operator
GetDBOp(o) == IF o \in DOMAIN opFormat THEN opFormat[o] ELSE <<>>

\* the parser's direction rendering
GetDBDir(d) == IF d \in DOMAIN sortDirection THEN sortDirection[d] ELSE <<>>

-----------------------------------------------------------------------------
(* Decoded JSON values (interface{} as encoding/json produces them) and the  *)
(* values bound as query arguments.  Every value has the same record shape.  *)

\* `big` is "" for a number held in n; a number too large to hold is n = 0 with
\* `big` naming it
JV(t, n, frac, s, kids) ==
    [t |-> t, n |-> n, frac |-> frac, s |-> s, kids |-> kids, big |-> ""]

Null      == JV("nil", 0, FALSE, <<>>, <<>>)
\* the float64 n
Num(n)    == JV("float64", n, FALSE, <<>>, <<>>)
\* the float64 n + 0.5 (a number with a non-zero fractional part)
Frac(n)   == JV("float64", n, TRUE, <<>>, <<>>)
Str(s)    == JV("string", 0, FALSE, s, <<>>)
Bool(b)   == JV("bool", IF b THEN 1 ELSE 0, FALSE, <<>>, <<>>)
\* []interface{}: the elements, each paired with an empty key so that the children
\* of an array and of a map have one shape
Arr(elts) == JV("slice", 0, FALSE, <<>>, [i \in DOMAIN elts |-> <<<<>>, elts[i]>>])
\* map[string]interface{}: <<key, value>> pairs, keys distinct
Obj(prs)  == JV("map", 0, FALSE, <<>>, prs)
\* a Go int, as convertInt produces it
GoInt(n)  == JV("int", n, FALSE, <<>>, <<>>)
\* the float64 1e19 (above MaxInt64, below MaxUint64) and the float64 -1e19
Big(tag)  == [JV("float64", 0, FALSE, <<>>, <<>>) EXCEPT !.big = tag]
\* int(v) of a float64 that no int holds: the result depends on the build
ImplInt(tag) == [JV("int", 0, FALSE, <<>>, <<>>) EXCEPT !.big = tag]
\* the Go ints math.MinInt64 and math.MaxInt64
MinInt64 == [JV("int", 0, FALSE, <<>>, <<>>) EXCEPT !.big = "MinInt64"]
MaxInt64 == [JV("int", 0, FALSE, <<>>, <<>>) EXCEPT !.big = "MaxInt64"]
\* a time.Time, as convertTime produces it from the string s
GoTime(s) == JV("time.Time", 0, FALSE, s, <<>>)
\* v < 0 for a float64
Negative(v) == v.n < 0 \/ v.big = "-1e19"

IsObj(v) == v.t = "map"
IsArr(v) == v.t = "slice"
\* the elements of an array
Elems(v) == [i \in DOMAIN v.kids |-> v.kids[i][2]]

Keys(prs) == {prs[i][1] : i \in DOMAIN prs}
DistinctKeys(prs) == \A i, j \in DOMAIN prs : prs[i][1] = prs[j][1] => i = j

-----------------------------------------------------------------------------
(* The model struct handed to NewParser, as reflect describes it. *)

\* Named is the name of a defined type ("" for an unnamed one); Under names the
\* defined struct type whose underlying type this struct type shares
GoType(kind, named, flds, elem) ==
    [Kind |-> kind, Named |-> named, Fields |-> flds, Elem |-> elem, Under |-> named]

TBool      == GoType("bool", "", <<>>, <<>>)
TString    == GoType("string", "", <<>>, <<>>)
TInt       == GoType("int", "", <<>>, <<>>)
TUint      == GoType("uint", "", <<>>, <<>>)
TFloat64   == GoType("float64", "", <<>>, <<>>)
TInterface == GoType("interface", "", <<>>, <<>>)
TStruct(flds) == GoType("struct", "", flds, <<>>)
TPtr(t)    == GoType("ptr", "", <<>>, <<t>>)
\* a basic kind, and a defined type of that kind (type MyInt int8)
TKind(k)   == GoType(k, "", <<>>, <<>>)
TDefined(name, k) == GoType(k, name, <<>>, <<>>)
\* the struct types of database/sql and time, and a type defined as time.Time
TNamed(name) == GoType("struct", name, <<>>, <<>>)
TTime      == TNamed("time.Time")
TTimeLike(name) == [GoType("struct", name, <<>>, <<>>) EXCEPT !.Under = "time.Time"]
\* no type at all: a nil Model
TNil       == GoType("nil", "", <<>>, <<>>)
TSlice(t)  == GoType("slice", "", <<>>, <<t>>)
\* v.Type().ConvertibleTo(reflect.TypeOf(time.Time{})), for a struct type
ConvertibleToTime(t) == t.Under = "time.Time"

\* a reflect.StructField; Opts is the tag split at commas, one record per option
StructField(name, anon, hasTag, opts, type) ==
    [Name |-> name, Anonymous |-> anon, HasTag |-> hasTag, Opts |-> opts, Type |-> type]

Opt(o) == [opt |-> o, val |-> <<>>]
OptColumn(v) == [opt |-> "column", val |-> v]

\* indirect returns the item at the end of indirection.
RECURSIVE indirect(_)
indirect(t) == IF t.Kind = "ptr" THEN indirect(t.Elem[1]) ELSE t

\* a Column that only looks at the letter before an uppercase letter
RECURSIVE ColumnFrom_looks_back(_, _)
ColumnFrom_looks_back(s, i) ==
    IF i > Len(s) THEN <<>>
    ELSE LET r == s[i]
             under == i > 1 /\ i < Len(s) /\ IsUpper(r) /\ IsLower(s[i - 1])
         IN  (IF under THEN <<"_">> ELSE <<>>) \o <<ToLower(r)>>
                 \o ColumnFrom_looks_back(s, i + 1)

\* Column is the default function that converts a field name into a column.
RECURSIVE ColumnFrom(_, _)
ColumnFrom(s, i) ==
    IF i > Len(s) THEN <<>>
    ELSE LET r == s[i]
             under == /\ i > 1
                      /\ i < Len(s)
                      /\ IsUpper(r)
                      /\ \/ IsLower(s[i - 1])
                         \/ IsLower(s[i + 1]) /\ IsLetter(s[i - 1])
         IN  (IF under THEN <<"_">> ELSE <<>>) \o <<ToLower(r)>> \o ColumnFrom(s, i + 1)

Column_looks_back(s) == ColumnFrom_looks_back(s, 1)

Column(s) == ColumnFrom(s, 1)

IntKinds   == {"int", "int8", "int16", "int32", "int64"}
UintKinds  == {"uint", "uint8", "uint16", "uint32", "uint64", "uintptr"}
FloatKinds == {"float32", "float64"}

\* GetSupportedOps with the floats left without the ordering operators
GetSupportedOps_floats_unordered(t) ==
    CASE t.Kind = "bool"        -> {EQ, NEQ}
      [] t.Kind = "string"      -> {EQ, NEQ, LT, LTE, GT, GTE, LIKE}
      [] t.Kind \in IntKinds    -> {EQ, NEQ, LT, LTE, GT, GTE}
      [] t.Kind \in UintKinds   -> {EQ, NEQ, LT, LTE, GT, GTE}
      [] t.Kind \in FloatKinds  -> {EQ, NEQ}
      [] t.Kind = "struct" ->
            CASE t.Named = "sql.NullBool"    -> {EQ, NEQ}
              [] t.Named = "sql.NullString"  -> {EQ, NEQ}
              [] t.Named = "sql.NullInt64"   -> {EQ, NEQ, LT, LTE, GT, GTE}
              [] t.Named = "sql.NullFloat64" -> {EQ, NEQ, LT, LTE, GT, GTE}
              [] t.Named = "time.Time"       -> {EQ, NEQ, LT, LTE, GT, GTE}
              [] OTHER -> IF ConvertibleToTime(t) THEN {EQ, NEQ, LT, LTE, GT, GTE} ELSE {}
      [] OTHER -> {}

GetSupportedOps(t) ==
    CASE t.Kind = "bool"        -> {EQ, NEQ}
      [] t.Kind = "string"      -> {EQ, NEQ, LT, LTE, GT, GTE, LIKE}
      [] t.Kind \in IntKinds    -> {EQ, NEQ, LT, LTE, GT, GTE}
      [] t.Kind \in UintKinds   -> {EQ, NEQ, LT, LTE, GT, GTE}
      [] t.Kind \in FloatKinds  -> {EQ, NEQ, LT, LTE, GT, GTE}
      [] t.Kind = "struct" ->
            CASE t.Named = "sql.NullBool"    -> {EQ, NEQ}
              [] t.Named = "sql.NullString"  -> {EQ, NEQ}
              [] t.Named = "sql.NullInt64"   -> {EQ, NEQ, LT, LTE, GT, GTE}
              [] t.Named = "sql.NullFloat64" -> {EQ, NEQ, LT, LTE, GT, GTE}
              [] t.Named = "time.Time"       -> {EQ, NEQ, LT, LTE, GT, GTE}
              [] OTHER -> IF ConvertibleToTime(t) THEN {EQ, NEQ, LT, LTE, GT, GTE} ELSE {}
      [] OTHER -> {}

GetConverterFn(t) ==
    CASE t.Kind \in IntKinds \cup UintKinds -> "convertInt"
      [] t.Kind = "struct" /\ t.Named = "sql.NullInt64" -> "convertInt"
      [] t.Kind = "struct" /\ t.Named = "time.Time" -> "convertTime"
      [] t.Kind = "struct" /\ t.Named \notin {"sql.NullBool", "sql.NullString",
                "sql.NullInt64", "sql.NullFloat64", "time.Time"}
            /\ ConvertibleToTime(t) -> "convertTime"
      [] OTHER -> "valueFn"

GetValidateFn(t) ==
    CASE t.Kind = "bool"       -> "validateBool"
      [] t.Kind = "string"     -> "validateString"
      [] t.Kind \in IntKinds   -> "validateInt"
      [] t.Kind \in UintKinds  -> "validateUInt"
      [] t.Kind \in FloatKinds -> "validateFloat"
      [] t.Kind = "struct" ->
            CASE t.Named = "sql.NullBool"    -> "validateBool"
              [] t.Named = "sql.NullString"  -> "validateString"
              [] t.Named = "sql.NullInt64"   -> "validateInt"
              [] t.Named = "sql.NullFloat64" -> "validateFloat"
              [] t.Named = "time.Time"       -> "validateTime"
              [] OTHER -> IF ConvertibleToTime(t) THEN "validateTime" ELSE "nil"
      [] OTHER -> "nil"

\* p.op: the operator's key in a filter document
op(c, o) == c.OpPrefix \o o

\* the loop of parseField over the tag's options
RECURSIVE applyOpts(_, _)
applyOpts(f, opts) ==
    IF Len(opts) = 0 THEN f
    ELSE LET o == opts[1]
             g == CASE o.opt = "sort"   -> [f EXCEPT !.Sortable = TRUE]
                    [] o.opt = "filter" -> [f EXCEPT !.Filterable = TRUE]
                    [] o.opt = "column" -> [f EXCEPT !.Name = o.val]
                    [] OTHER -> f
         IN  applyOpts(g, Tail(opts))

\* parseField: the Field for a tagged struct field, or the error for its type
parseField(c, sf) ==
    LET f0 == [Name |-> Column(sf.Name), Sortable |-> FALSE, Filterable |-> FALSE,
               FilterOps |-> {}, Type |-> indirect(sf.Type),
               ValidateFn |-> "nil", CovertFn |-> "valueFn"]
        f1 == applyOpts(f0, sf.Opts)
        filterOps == GetSupportedOps(f1.Type)
    IN  IF filterOps = {}
        THEN [err |-> "rql: field type is not supported", f |-> f1]
        ELSE [err |-> "",
              f |-> [f1 EXCEPT !.CovertFn = GetConverterFn(f1.Type),
                               !.ValidateFn = GetValidateFn(f1.Type),
                               !.FilterOps = {op(c, o) : o \in filterOps}]]

Reverse(s) == [i \in DOMAIN s |-> s[Len(s) + 1 - i]]

\* the struct types declared by name, which can hold pointers to themselves and
\* to each other:
\*     type Node  struct { Name string `rql:"filter"`; Next *Node }
\*     type Embed struct { Name string `rql:"filter"`; *Embed }
\*     type Ping  struct { Pong *Pong }
\*     type Pong  struct { Code int `rql:"sort"`; Ping **Ping }
\*     type Link  struct { Next *Link `rql:"filter"` }
Decls ==
    [n \in {"Node", "Embed", "Ping", "Pong", "Link"} |->
        CASE n = "Node" ->
               <<StructField(<<"N","a","m","e">>, FALSE, TRUE, <<Opt("filter")>>, TString),
                 StructField(<<"N","e","x","t">>, FALSE, FALSE, <<>>, TPtr(TNamed("Node")))>>
          [] n = "Embed" ->
               <<StructField(<<"N","a","m","e">>, FALSE, TRUE, <<Opt("filter")>>, TString),
                 StructField(<<"E","m","b","e","d">>, TRUE, FALSE, <<>>, TPtr(TNamed("Embed")))>>
          [] n = "Ping" ->
               <<StructField(<<"P","o","n","g">>, FALSE, FALSE, <<>>, TPtr(TNamed("Pong")))>>
          [] n = "Pong" ->
               <<StructField(<<"C","o","d","e">>, FALSE, TRUE, <<Opt("sort")>>, TInt),
                 StructField(<<"P","i","n","g">>, FALSE, FALSE, <<>>,
                             TPtr(TPtr(TNamed("Ping"))))>>
          [] n = "Link" ->
               <<StructField(<<"N","e","x","t">>, FALSE, TRUE, <<Opt("filter")>>,
                             TPtr(TNamed("Link")))>>]

\* t.NumField() and t.Field(i) of a struct type: its fields
FieldsOf(t) == IF t.Named \in DOMAIN Decls THEN Decls[t.Named] ELSE t.Fields

\* the sub-fields of an untagged struct field, renamed as init renames them
SubFields(c, f) ==
    LET t == indirect(f.Type)
    IN  [i \in DOMAIN FieldsOf(t) |->
            IF f.Anonymous THEN FieldsOf(t)[i]
            ELSE [FieldsOf(t)[i] EXCEPT !.Name = f.Name \o c.FieldSep \o FieldsOf(t)[i].Name]]

\* init's loop over the list l of struct fields still to scan
RECURSIVE initLoop(_, _, _)
initLoop(c, l, flds) ==
    IF Len(l) = 0 THEN [err |-> "", fields |-> flds]
    ELSE LET f == l[1]
             rest == Tail(l)
         IN  CASE f.HasTag ->
                    LET r == parseField(c, f)
                    IN  IF r.err # "" THEN [err |-> r.err, fields |-> flds]
                        ELSE initLoop(c, rest,
                                 [k \in DOMAIN flds \cup {r.f.Name} |->
                                     IF k = r.f.Name THEN r.f ELSE flds[k]])
               [] ~f.HasTag /\ indirect(f.Type).Kind = "struct" ->
                    initLoop(c, Reverse(SubFields(c, f)) \o rest, flds)
               [] OTHER -> initLoop(c, rest, flds)

\* Parser.init: every field is pushed to the front of the list, then the loop
init(c) == initLoop(c, Reverse(FieldsOf(indirect(c.Model))), <<>>)

-----------------------------------------------------------------------------
(* Errors and panics.  An error is a sequence of strings: the message's      *)
(* format (one element holding the format text) followed by its arguments;  *)
(* the empty sequence is nil.                                                *)

NoErr == <<>>
Errorf(format, args) == <<<<format>>>> \o args

NoPanic == [kind |-> "", err |-> NoErr]
\* panic(&ParseError{...}), as expect and must raise it
ParseErr(format, args) == [kind |-> "ParseError", err |-> Errorf(format, args)]
\* a panic of the Go runtime (not a *ParseError)
RuntimePanic(what) == [kind |-> "runtime", err |-> Errorf(what, <<>>)]

-----------------------------------------------------------------------------
(* Validators and converters. *)

errorType(v, expected) == Errorf("expect <%s>, got <%s>", <<<<expected>>, <<v.t>>>>)

validateBool(v)   == IF v.t # "bool" THEN errorType(v, "bool") ELSE NoErr
validateString(v) == IF v.t # "string" THEN errorType(v, "string") ELSE NoErr
validateFloat(v)  == IF v.t # "float64" THEN errorType(v, "float64") ELSE NoErr

\* math.Trunc(n) != n holds exactly for a number with a fractional part
validateInt(v) ==
    IF v.t # "float64" THEN errorType(v, "int")
    ELSE IF v.frac THEN Errorf("not an integer", <<>>)
    ELSE NoErr

validateUInt(v) ==
    IF validateInt(v) # NoErr THEN validateInt(v)
    ELSE IF Negative(v) THEN Errorf("not an unsigned integer", <<>>)
    ELSE NoErr

\* a string time.Parse accepts under the layout time.RFC3339
vTime == <<"2","0","0","6","-","0","1","-","0","2","T","1","5",":","0","4",":","0","5","Z">>

\* validate that the underlined element of this interface is a "datetime" string.
validateTime(v) ==
    IF v.t # "string" THEN errorType(v, "string")
    ELSE IF v.s # vTime THEN Errorf("parsing time %q", <<v.s>>)
    ELSE NoErr

\* f.ValidateFn(op, *f.FieldMeta, v)
ValidateFn(f, o, v) ==
    CASE f.ValidateFn = "validateBool"   -> validateBool(v)
      [] f.ValidateFn = "validateString" -> validateString(v)
      [] f.ValidateFn = "validateFloat"  -> validateFloat(v)
      [] f.ValidateFn = "validateInt"    -> validateInt(v)
      [] f.ValidateFn = "validateUInt"   -> validateUInt(v)
      [] f.ValidateFn = "validateTime"   -> validateTime(v)

\* int(v.(float64)); only called on a value that passed validateInt.  A value no
\* int holds converts to a result the language leaves to the implementation.
convertInt(v) == IF v.big = "" THEN GoInt(v.n) ELSE ImplInt(v.big)

\* the builds, and what each one's float64-to-int conversion gives outside int's range
Builds == {"amd64", "arm64"}
ImplResult(b, tag) ==
    IF tag = "1e19" /\ b = "arm64" THEN MaxInt64 ELSE MinInt64

\* convert string to time object.
convertTime(v) == GoTime(v.s)

\* nop converter.
valueFn(v) == v

\* f.CovertFn(op, *f.FieldMeta, v)
CovertFn(f, o, v) ==
    CASE f.CovertFn = "convertInt" -> convertInt(v)
      [] f.CovertFn = "valueFn"    -> valueFn(v)
      [] f.CovertFn = "convertTime" -> convertTime(v)

-----------------------------------------------------------------------------
(* The expression compiler.  A parse state is [buf, values, panic]: the      *)
(* bytes written so far, the arguments appended so far, and the panic in     *)
(* flight (NoPanic while the call is running normally).                      *)

NewState == [buf |-> <<>>, values |-> <<>>, panic |-> NoPanic]

Panicking(ps) == ps.panic.kind # ""
Write(ps, s) == [ps EXCEPT !.buf = @ \o s]
Raise(ps, p) == [ps EXCEPT !.panic = p]

\* colName formats the query field to a database column name.
colName(c, field) ==
    IF c.FieldSep # DefaultFieldSep
    THEN ReplaceAll(field, c.FieldSep, DefaultFieldSep)
    ELSE field

\* fmtOp creates a string for the operation with a placeholder.
fmtOp(c, f, o) == colName(c, f.Name) \o <<" ">> \o GetDBOp(o) \o <<" ", "?">>

\* predicate, the argument put in front of the list instead of at its end
predicate_prepends(c, ps, f, o, v, format) ==
    LET err == ValidateFn(f, o, v)
    IN  IF err # NoErr
        THEN Raise(ps, ParseErr(format, <<f.Name>> \o err))
        ELSE [Write(ps, fmtOp(c, f, o)) EXCEPT !.values = <<CovertFn(f, o, v)>> \o @]

\* a predicate that writes a string value into the expression in place of `?`
predicate_inlines(c, ps, f, o, v, format) ==
    LET err == ValidateFn(f, o, v)
    IN  IF err # NoErr
        THEN Raise(ps, ParseErr(format, <<f.Name>> \o err))
        ELSE [Write(ps, colName(c, f.Name) \o <<" ">> \o GetDBOp(o) \o <<" ">> \o
                        (IF v.t = "string" THEN <<"'">> \o v.s \o <<"'">> ELSE <<"?">>))
                 EXCEPT !.values = Append(@, CovertFn(f, o, v))]

\* one predicate of field: validate, write, convert, append
predicate(c, ps, f, o, v, format) ==
    LET err == ValidateFn(f, o, v)
    IN  IF err # NoErr
        THEN Raise(ps, ParseErr(format, <<f.Name>> \o err))
        ELSE [Write(ps, fmtOp(c, f, o)) EXCEPT !.values = Append(@, CovertFn(f, o, v))]

\* the loop of field over the operator object's entries, from entry i on
RECURSIVE fieldLoop(_, _, _, _, _)
fieldLoop(c, ps, f, terms, i) ==
    IF Panicking(ps) \/ i > Len(terms) THEN ps
    ELSE LET opName == terms[i][1]
             opVal  == terms[i][2]
             ps1 == IF i > 1 THEN Write(ps, <<" ","A","N","D"," ">>) ELSE ps
             ps2 == IF Len(opName) < 1
                    THEN Raise(ps1, RuntimePanic("slice bounds out of range [1:0]"))
                    ELSE IF opName \notin f.FilterOps
                    THEN Raise(ps1, ParseErr("can not apply op %q on field %q",
                                             <<opName, f.Name>>))
                    ELSE predicate(c, ps1, f, SliceFrom(opName, 1), opVal,
                                   "invalid datatype or format for field %q: %s")
         IN  fieldLoop(c, ps2, f, terms, i + 1)

\* a field whose shorthand form skips the validation of the value
field_shorthand_unchecked(c, ps, f, v) ==
    IF ~IsObj(v)
    THEN [Write(ps, fmtOp(c, f, EQ)) EXCEPT !.values = Append(@, CovertFn(f, EQ, v))]
    ELSE LET terms == v.kids
             ps1 == IF Len(terms) > 1 THEN Write(ps, <<"(">>) ELSE ps
             ps2 == fieldLoop(c, ps1, f, terms, 1)
         IN  IF Panicking(ps2) THEN ps2
             ELSE IF Len(terms) > 1 THEN Write(ps2, <<")">>) ELSE ps2

\* a field that never parenthesizes its operator object
field_never_parens(c, ps, f, v) ==
    IF ~IsObj(v)
    THEN predicate(c, ps, f, EQ, v, "invalid datatype for field %q: %s")
    ELSE fieldLoop(c, ps, f, v.kids, 1)

\* parseState.field
field(c, ps, f, v) ==
    IF ~IsObj(v)
    THEN \* default equality check; terms is nil, so the loop and the parentheses do nothing
         predicate(c, ps, f, EQ, v, "invalid datatype for field %q: %s")
    ELSE LET terms == v.kids
             ps1 == IF Len(terms) > 1 THEN Write(ps, <<"(">>) ELSE ps
             ps2 == fieldLoop(c, ps1, f, terms, 1)
         IN  IF Panicking(ps2) THEN ps2
             ELSE IF Len(terms) > 1 THEN Write(ps2, <<")">>) ELSE ps2

RECURSIVE and(_, _, _, _)
RECURSIVE andLoop(_, _, _, _, _)
RECURSIVE relOpLoop(_, _, _, _, _, _)

\* a relOp that parenthesizes a group of one document too
relOp_always_parens(c, flds, ps, o, terms) ==
    LET ps1 == IF Len(terms) > 0 THEN Write(ps, <<"(">>) ELSE ps
        ps2 == relOpLoop(c, flds, ps1, o, terms, 1)
    IN  IF Panicking(ps2) THEN ps2
        ELSE IF Len(terms) > 0 THEN Write(ps2, <<")">>) ELSE ps2

\* a relOp that writes no parentheses at all
relOp_never_parens(c, flds, ps, o, terms) == relOpLoop(c, flds, ps, o, terms, 1)

\* parseState.relOp
relOp(c, flds, ps, o, terms) ==
    LET ps1 == IF Len(terms) > 1 THEN Write(ps, <<"(">>) ELSE ps
        ps2 == relOpLoop(c, flds, ps1, o, terms, 1)
    IN  IF Panicking(ps2) THEN ps2
        ELSE IF Len(terms) > 1 THEN Write(ps2, <<")">>) ELSE ps2

\* the loop of relOp over the array's elements, from element i on
relOpLoop(c, flds, ps, o, terms, i) ==
    IF Panicking(ps) \/ i > Len(terms) THEN ps
    ELSE LET t == terms[i]
             ps1 == IF i > 1 THEN Write(ps, <<" ">> \o GetDBOp(o) \o <<" ">>) ELSE ps
             ps2 == IF ~IsObj(t)
                    THEN Raise(ps1, ParseErr("expressions for $%s operator must be type object",
                                             <<o>>))
                    ELSE and(c, flds, ps1, t.kids)
         IN  relOpLoop(c, flds, ps2, o, terms, i + 1)

\* one iteration of and's loop: the entry i of f
andStep(c, flds, ps, f, i) ==
    LET k == f[i][1]
        v == f[i][2]
        ps1 == IF i > 1 THEN Write(ps, <<" ","A","N","D"," ">>) ELSE ps
    IN  CASE k = op(c, OR) ->
               IF ~IsArr(v)
               THEN Raise(ps1, ParseErr("$or must be type array", <<>>))
               ELSE relOp(c, flds, ps1, OR, Elems(v))
          [] k # op(c, OR) /\ k = op(c, AND) ->
               IF ~IsArr(v)
               THEN Raise(ps1, ParseErr("$and must be type array", <<>>))
               ELSE relOp(c, flds, ps1, AND, Elems(v))
          [] k # op(c, OR) /\ k # op(c, AND) /\ k \in DOMAIN flds ->
               IF ~flds[k].Filterable
               THEN Raise(ps1, ParseErr("field %q is not filterable", <<k>>))
               ELSE field(c, ps1, flds[k], v)
          [] OTHER ->
               Raise(ps1, ParseErr("unrecognized key %q for filtering", <<k>>))

\* the loop of and over the object's entries, from entry i on
andLoop(c, flds, ps, f, i) ==
    IF Panicking(ps) \/ i > Len(f) THEN ps
    ELSE andLoop(c, flds, andStep(c, flds, ps, f, i), f, i + 1)

\* an and that writes a condition that always holds for an object of no entries
and_writes_true(c, flds, ps, f) ==
    IF f = <<>> THEN Write(ps, <<"1", " ", "=", " ", "1">>) ELSE andLoop(c, flds, ps, f, 1)

\* parseState.and: f is the map's entries in the order range visits them
and(c, flds, ps, f) == andLoop(c, flds, ps, f, 1)

-----------------------------------------------------------------------------
(* The sort clause. *)

\* a sort entry that is not checked for the `sort` option
sortParam_any_field(c, flds, fld) ==
    IF fld = <<>>
    THEN [s |-> <<>>, panic |-> ParseErr("sort field can not be empty", <<>>)]
    ELSE LET f0 == fld[1]
             prefixed == f0 = ASC \/ f0 = DESC
             orderBy == IF prefixed THEN GetDBDir(f0) ELSE <<>>
             name == IF prefixed THEN SliceFrom(fld, 1) ELSE fld
         IN  IF name \notin DOMAIN flds
             THEN [s |-> <<>>, panic |-> ParseErr("unrecognized key %q for sorting", <<name>>)]
             ELSE [s |-> colName(c, name) \o
                         (IF orderBy # <<>> THEN <<" ">> \o orderBy ELSE <<>>),
                   panic |-> NoPanic]

\* a sort entry that renders the `+` prefix as the bare column
sortParam_drops_asc(c, flds, fld) ==
    IF fld = <<>>
    THEN [s |-> <<>>, panic |-> ParseErr("sort field can not be empty", <<>>)]
    ELSE LET f0 == fld[1]
             prefixed == f0 = ASC \/ f0 = DESC
             orderBy == IF f0 = DESC THEN GetDBDir(f0) ELSE <<>>
             name == IF prefixed THEN SliceFrom(fld, 1) ELSE fld
         IN  IF name \notin DOMAIN flds
             THEN [s |-> <<>>, panic |-> ParseErr("unrecognized key %q for sorting", <<name>>)]
             ELSE IF ~flds[name].Sortable
             THEN [s |-> <<>>, panic |-> ParseErr("field %q is not sortable", <<name>>)]
             ELSE [s |-> colName(c, name) \o
                         (IF orderBy # <<>> THEN <<" ">> \o orderBy ELSE <<>>),
                   panic |-> NoPanic]

\* one iteration of sort's loop: the entry's rendering, or the panic it raises
sortParam(c, flds, fld) ==
    IF fld = <<>>
    THEN [s |-> <<>>, panic |-> ParseErr("sort field can not be empty", <<>>)]
    ELSE LET f0 == fld[1]
             prefixed == f0 = ASC \/ f0 = DESC
             orderBy == IF prefixed THEN GetDBDir(f0) ELSE <<>>
             name == IF prefixed THEN SliceFrom(fld, 1) ELSE fld
         IN  IF name \notin DOMAIN flds
             THEN [s |-> <<>>, panic |-> ParseErr("unrecognized key %q for sorting", <<name>>)]
             ELSE IF ~flds[name].Sortable
             THEN [s |-> <<>>, panic |-> ParseErr("field %q is not sortable", <<name>>)]
             ELSE [s |-> colName(c, name) \o
                         (IF orderBy # <<>> THEN <<" ">> \o orderBy ELSE <<>>),
                   panic |-> NoPanic]

\* the first panic raised by sort's loop, NoPanic if there is none
RECURSIVE sortPanic(_, _, _, _)
sortPanic(c, flds, list, i) ==
    IF i > Len(list) THEN NoPanic
    ELSE IF sortParam(c, flds, list[i]).panic.kind # ""
         THEN sortParam(c, flds, list[i]).panic
         ELSE sortPanic(c, flds, list, i + 1)

\* Parser.sort builds the sort clause.
sort(c, flds, list) ==
    LET p == sortPanic(c, flds, list, 1)
    IN  IF p.kind # "" THEN [s |-> <<>>, panic |-> p]
        ELSE [s |-> Join([i \in DOMAIN list |-> sortParam(c, flds, list[i]).s],
                         <<",", " ">>),
              panic |-> NoPanic]

-----------------------------------------------------------------------------
(* NewParser and ParseQuery. *)

\* Config.defaults: the string and integer defaults
defaults(c) ==
    [c EXCEPT !.OpPrefix = IF @ = <<>> THEN DefaultOpPrefix ELSE @,
              !.FieldSep = IF @ = <<>> THEN DefaultFieldSep ELSE @,
              !.DefaultLimit = IF @ = 0 THEN DefaultLimit ELSE @,
              !.LimitMaxValue = IF @ = 0 THEN DefaultMaxLimit ELSE @]

\* the checks of Model with only the first one made
defaultsErr_only_nil(c) ==
    IF c.Model.Kind = "nil" THEN "rql: 'Model' is a required field" ELSE ""

\* Config.defaults, lines 168-173: the checks of Model
defaultsErr(c) ==
    IF c.Model.Kind = "nil" THEN "rql: 'Model' is a required field"
    ELSE IF indirect(c.Model).Kind # "struct" THEN "rql: 'Model' must be a struct type"
    ELSE ""

\* NewParser: the configuration after defaults() and the schema init() builds,
\* or the error of either
NewParser(c) ==
    IF defaultsErr(c) # ""
    THEN [cfg |-> c, built |-> [err |-> defaultsErr(c), fields |-> <<>>]]
    ELSE [cfg |-> defaults(c), built |-> init(defaults(c))]

\* the Params ParseQuery starts from
NewParams(c) ==
    [Limit |-> c.DefaultLimit, Offset |-> 0, Select |-> <<>>, Sort |-> <<>>,
     FilterExp |-> <<>>, FilterArgs |-> <<>>]

\* the zero Params, standing where ParseQuery returns a nil *Params
NilParams ==
    [Limit |-> 0, Offset |-> 0, Select |-> <<>>, Sort |-> <<>>,
     FilterExp |-> <<>>, FilterArgs |-> <<>>]

\* a paging check that refuses the limit LimitMaxValue itself
paging_strict_limit(c, query) ==
    LET pr0 == NewParams(c)
    IN  IF ~(query.Offset >= 0)
        THEN [pr |-> pr0,
              panic |-> ParseErr("offset must be greater than or equal to 0", <<>>)]
        ELSE LET pr1 == [pr0 EXCEPT !.Offset = query.Offset]
             IN  IF query.Limit # 0
                 THEN IF ~(query.Limit > 0 /\ query.Limit < c.LimitMaxValue)
                      THEN [pr |-> pr1,
                            panic |-> ParseErr(
                                "limit must be greater than 0 and less than or equal to %d",
                                <<>>)]
                      ELSE [pr |-> [pr1 EXCEPT !.Limit = query.Limit], panic |-> NoPanic]
                 ELSE [pr |-> pr1, panic |-> NoPanic]

\* ParseQuery, lines 189-197: the offset and limit checks
paging(c, query) ==
    LET pr0 == NewParams(c)
    IN  IF ~(query.Offset >= 0)
        THEN [pr |-> pr0,
              panic |-> ParseErr("offset must be greater than or equal to 0", <<>>)]
        ELSE LET pr1 == [pr0 EXCEPT !.Offset = query.Offset]
             IN  IF query.Limit # 0
                 THEN IF ~(query.Limit > 0 /\ query.Limit <= c.LimitMaxValue)
                      THEN [pr |-> pr1,
                            panic |-> ParseErr(
                                "limit must be greater than 0 and less than or equal to %d",
                                <<>>)]
                      ELSE [pr |-> [pr1 EXCEPT !.Limit = query.Limit], panic |-> NoPanic]
                 ELSE [pr |-> pr1, panic |-> NoPanic]

\* newParseState: got is <<>> when the pool gave nothing, <<ps>> when it gave ps
newParseState(got) ==
    IF got = <<>> THEN NewState
    ELSE [buf |-> <<>>, values |-> <<>>, panic |-> NoPanic]

\* ParseQuery, lines 198-201: compile the filter into the Params
filtering(c, flds, r, got, f) ==
    IF r.panic.kind # "" THEN [pr |-> r.pr, panic |-> r.panic, ps |-> NewState]
    ELSE LET ps == and(c, flds, newParseState(got), f)
         IN  IF Panicking(ps) THEN [pr |-> r.pr, panic |-> ps.panic, ps |-> ps]
             ELSE [pr |-> [r.pr EXCEPT !.FilterExp = ps.buf, !.FilterArgs = ps.values],
                   panic |-> NoPanic, ps |-> ps]

\* a sort stage that prefers a configured DefaultSort to the query's list
sorting_default_first(c, flds, r, query) ==
    IF r.panic.kind # "" THEN r
    ELSE LET s1 == sort(c, flds, IF Len(c.DefaultSort) > 0 THEN c.DefaultSort
                                 ELSE query.Sort)
         IN  IF s1.panic.kind # "" THEN [r EXCEPT !.panic = s1.panic]
             ELSE [r EXCEPT !.pr.Sort = s1.s]

\* ParseQuery, lines 202-205: the sort clause, from the query or from DefaultSort
sorting(c, flds, r, query) ==
    IF r.panic.kind # "" THEN r
    ELSE LET s1 == sort(c, flds, query.Sort)
         IN  IF s1.panic.kind # "" THEN [r EXCEPT !.panic = s1.panic]
             ELSE IF Len(s1.s) = 0 /\ Len(c.DefaultSort) > 0
             THEN LET s2 == sort(c, flds, c.DefaultSort)
                  IN  IF s2.panic.kind # "" THEN [r EXCEPT !.panic = s2.panic]
                      ELSE [r EXCEPT !.pr.Sort = s2.s]
             ELSE [r EXCEPT !.pr.Sort = s1.s]

\* a select stage that keeps only the entries that are fields of the schema
selecting_known_fields(r, query) ==
    IF r.panic.kind # "" THEN r
    ELSE [r EXCEPT !.pr.Select =
             Join(SelectSeq(query.Select, LAMBDA e : e = <<"n","a","m","e">>), <<",", " ">>)]

\* ParseQuery, line 206
selecting(r, query) ==
    IF r.panic.kind # "" THEN r
    ELSE [r EXCEPT !.pr.Select = Join(query.Select, <<",", " ">>)]

\* the body of ParseQuery: the Params as far as built, the panic that stopped it
\* (NoPanic when it ran to its return), and the parse state it used
body(c, flds, query, got, f) ==
    selecting(sorting(c, flds, filtering(c, flds, paging(c, query), got, f), query), query)

\* the deferred function of ParseQuery: what the caller gets
recovered(r) ==
    IF r.panic.kind = ""
    THEN [kind |-> "ok", prNil |-> FALSE, pr |-> r.pr, errNil |-> TRUE, err |-> NoErr]
    ELSE IF r.panic.kind = "ParseError"
    THEN [kind |-> "error", prNil |-> TRUE, pr |-> NilParams,
          errNil |-> FALSE, err |-> r.panic.err]
    ELSE \* panic(e): ParseQuery does not return, the panic reaches the caller
         [kind |-> "panic", prNil |-> TRUE, pr |-> NilParams,
          errNil |-> TRUE, err |-> r.panic.err]

\* the memory concurrent calls share: nothing allocated, nothing pooled
NoMem == [ps |-> <<>>, arrays |-> <<>>, pool |-> {}]

\* the arguments as the build b leaves them: convertInt's results outside int's range
onBuildArgs(args, b) ==
    [i \in DOMAIN args |->
        IF args[i].t = "int" /\ args[i].big # "" THEN ImplResult(b, args[i].big)
        ELSE args[i]]

\* the outcome of body on the build b
onBuild(r, b) ==
    [r EXCEPT !.pr.FilterArgs = onBuildArgs(@, b), !.ps.values = onBuildArgs(@, b)]

\* the pool after the call: the state taken out, and put back only on the normal path
pooled(pl, got, r) ==
    LET rest == IF got = <<>> THEN pl ELSE Tail(pl)
    IN  IF r.panic.kind = ""
        THEN Append(rest, [buf |-> r.ps.buf, values |-> r.ps.values])
        ELSE rest

-----------------------------------------------------------------------------
(* The orders in which `range` can visit the maps of a decoded filter. *)

\* the sequences made of one element of each set of the sequence ss
RECURSIVE Product(_)
Product(ss) ==
    IF Len(ss) = 0 THEN {<<>>}
    ELSE {<<h>> \o t : h \in ss[1], t \in Product(Tail(ss))}

RECURSIVE OrdersOfValue(_)
RECURSIVE OrdersOfPairs(_)

\* the entries of a map in every order of visit, the maps inside them too
OrdersOfPairs(prs) ==
    UNION {
        LET choices == Product([j \in DOMAIN prs |-> OrdersOfValue(prs[pi[j]][2])])
        IN  {[i \in DOMAIN prs |-> <<prs[pi[i]][1], vs[i]>>] : vs \in choices} :
        pi \in Permutations(DOMAIN prs)}

OrdersOfValue(v) ==
    CASE IsObj(v) -> {Obj(prs) : prs \in OrdersOfPairs(v.kids)}
      [] IsArr(v) -> {Arr(es) : es \in Product([i \in DOMAIN v.kids |-> OrdersOfValue(Elems(v)[i])])}
      [] OTHER -> {v}

-----------------------------------------------------------------------------
(* The inputs: the model struct, the configurations, the queries. *)

\* the sequences of at most n elements of the sequence a, taken in a's order
RECURSIVE Incr(_, _, _)
Incr(a, n, from) ==
    IF n = 0 THEN {<<>>}
    ELSE {<<>>} \cup UNION {{<<a[i]>> \o t : t \in Incr(a, n - 1, i + 1)} : i \in from..Len(a)}

\* the sequences of at most n elements of the set S
TuplesUpTo(S, n) == UNION {[1..k -> S] : k \in 0..n}

\* the pairs <<x, y>>, x of the sequence xs and y of the sequence ys, as a sequence
Pairs(xs, ys) ==
    [i \in 1..(Len(xs) * Len(ys)) |->
        <<xs[((i - 1) \div Len(ys)) + 1], ys[((i - 1) % Len(ys)) + 1]>>]

cAge     == <<"A","g","e">>
cName    == <<"N","a","m","e">>
cAddress == <<"A","d","d","r","e","s","s">>
cZIP     == <<"Z","I","P">>
cCode    == <<"C","o","d","e">>

\* struct {
\*     Age     int    `rql:"filter,sort"`
\*     Name    string `rql:"filter"`
\*     Address struct {
\*         Name string `rql:"filter,sort"`
\*         ZIP  *struct {
\*             Code int `rql:"sort"`
\*         }
\*     }
\* }
UserModel ==
    TStruct(<<
        StructField(cAge, FALSE, TRUE, <<Opt("filter"), Opt("sort")>>, TInt),
        StructField(cName, FALSE, TRUE, <<Opt("filter")>>, TString),
        StructField(cAddress, FALSE, FALSE, <<>>, TStruct(<<
            StructField(cName, FALSE, TRUE, <<Opt("filter"), Opt("sort")>>, TString),
            StructField(cZIP, FALSE, FALSE, <<>>, TPtr(TStruct(<<
                StructField(cCode, FALSE, TRUE, <<Opt("sort")>>, TInt)>>)))>>))>>)

\* the configurations handed to NewParser; an empty string or 0 asks for the default
Configs ==
    {[Model |-> UserModel, OpPrefix |-> <<>>, FieldSep |-> <<".">>,
      DefaultLimit |-> 0, LimitMaxValue |-> 0, DefaultSort |-> <<>>],
     [Model |-> UserModel, OpPrefix |-> <<>>, FieldSep |-> <<>>,
      DefaultLimit |-> 2, LimitMaxValue |-> 3,
      DefaultSort |-> <<<<"-","a","g","e">>>>]}

\* the keys of the schema's fields under configuration c, and keys that are not
kAge  == <<"a","g","e">>
kName == <<"n","a","m","e">>
kAddressName(c) == <<"a","d","d","r","e","s","s">> \o c.FieldSep \o <<"n","a","m","e">>
kAddressZipCode(c) ==
    <<"a","d","d","r","e","s","s">> \o c.FieldSep \o <<"z","i","p">>
        \o c.FieldSep \o <<"c","o","d","e">>
kUnknown == <<"x">>
kEmpty == <<>>

FilterKeys(c) == <<kAge, kName, kAddressName(c), kAddressZipCode(c), kUnknown, kEmpty>>

vDC == Str(<<"D","C">>)
Scalars == <<Num(12), Frac(1), vDC>>

kRegex == <<"r","e","g","e","x">>
\* operator keys: known ones under the prefix, an unknown one, and the empty key
OpKeys(c) == <<op(c, EQ), op(c, GTE), op(c, LTE), op(c, LIKE), op(c, kRegex), kEmpty>>

\* the operator objects of at most MaxOps entries
OpObjects(c) ==
    {Obj(t) : t \in {u \in Incr(Pairs(OpKeys(c), Scalars), MaxOps, 1) : DistinctKeys(u)}}

\* a filter of one field entry: every key with every scalar, and the filterable
\* top-level fields with every operator object
OnePredicate(c) ==
    {<<<<k, v>>>> : k \in Range(FilterKeys(c)),
                   v \in Range(Scalars) \cup {Arr(<<Num(12)>>), Null, Obj(<<>>)}}
        \cup {<<<<k, v>>>> : k \in {kAge, kName}, v \in OpObjects(c)}
        \cup {<<<<k, Obj(<<<<op(c, EQ), Num(12)>>>>)>>>> : k \in Range(FilterKeys(c))}

\* the field entries that filters of several entries and group arrays are built of
Atoms(c) ==
    <<<<kAge, Num(12)>>,
      <<kName, vDC>>,
      <<kAddressName(c), Obj(<<<<op(c, GTE), vDC>>, <<op(c, LIKE), vDC>>>>)>>,
      <<kName, Num(12)>>,
      <<kAge, vDC>>>>

\* the objects of at most MaxKeys atoms
Leaves(c) == {t \in Incr(Atoms(c), MaxKeys, 1) : DistinctKeys(t)}

Group(c, o, elts) == <<op(c, o), Arr(elts)>>

\* the documents that group arrays are built of: leaves, nested groups, a non-object
Elements(c) ==
    LET a == Obj(<<Atoms(c)[1]>>)
        b == Obj(<<Atoms(c)[2]>>)
        ab == Obj(<<Atoms(c)[1], Atoms(c)[2]>>)
    IN  <<a, b, ab,
          Obj(<<Atoms(c)[3]>>),
          Obj(<<Group(c, OR, <<a, b>>)>>),
          Obj(<<Group(c, AND, <<a, Obj(<<Group(c, OR, <<b>>)>>)>>)>>),
          Obj(<<Atoms(c)[2], Group(c, OR, <<a, ab>>)>>),
          Obj(<<Atoms(c)[4]>>),
          Obj(<<>>),
          Num(12)>>

\* a group entry: $or or $and over an array of at most MaxTerms of the documents,
\* in the order Elements lists them, or over a value that is no array
Groups(c) ==
    {Group(c, o, elts) : o \in {OR, AND}, elts \in Incr(Elements(c), MaxTerms, 1)}
        \cup {<<op(c, o), vDC>> : o \in {OR, AND}}

\* the filters: one predicate, leaves, one group, and a group next to one atom
Filters(c) ==
    OnePredicate(c) \cup Leaves(c)
        \cup {<<g>> : g \in Groups(c)}
        \cup {<<Atoms(c)[i], g>> : i \in 1..2, g \in Groups(c)}

\* filters standing for the three outcomes: none, one that compiles, one that fails
CoreFilters(c) == {<<>>, <<Atoms(c)[1], Atoms(c)[2]>>, <<Atoms(c)[4]>>}

\* the entries sort lists are built of
SortEntries(c) ==
    {kAddressName(c), <<"-">> \o kAddressZipCode(c), <<"+">> \o kAge, kAge,
     kName, <<"-">> \o kUnknown, <<"+">>, <<>>}

Sorts(c) == TuplesUpTo(SortEntries(c), MaxSort)
CoreSorts(c) == {<<>>, <<<<"-">> \o kAge>>, <<kName>>}

Selects == TuplesUpTo({kName, <<"x", ",", "y">>, <<>>}, MaxSort)

\* offsets and limits around the boundaries of the checks
Offsets == (0 - MaxPage)..MaxPage
Limits(c) == (0 - MaxPage)..(c.LimitMaxValue + MaxPage)

Query(offset, limit, sel, srt, f) ==
    [Offset |-> offset, Limit |-> limit, Select |-> sel, Sort |-> srt, Filter |-> f]

\* the queries: one part ranges over its whole bounded set, the others over
\* values standing for their outcomes
Queries(c) ==
    {Query(0, 0, <<>>, <<>>, f) : f \in Filters(c)}
        \cup {Query(0, 0, <<>>, s, <<>>) : s \in Sorts(c)}
        \cup {Query(o, l, <<>>, s, f) : o \in Offsets, l \in Limits(c),
                                       s \in CoreSorts(c), f \in CoreFilters(c)}
        \cup {Query(0, 0, sel, <<>>, <<>>) : sel \in Selects}

-----------------------------------------------------------------------------
(* The state machine. *)

Init ==
    /\ \E c \in Configs :
          /\ NewParser(c).built.err = ""
          /\ cfg = NewParser(c).cfg
          /\ fields = NewParser(c).built.fields
    /\ q \in Queries(cfg)
    /\ pc = "ready"
    /\ ret = [kind |-> "none", prNil |-> TRUE, pr |-> NilParams,
              errNil |-> TRUE, err |-> NoErr]
    /\ visit = <<>>
    /\ pool = <<>>
    /\ newErr = ""
    /\ mem = NoMem
    /\ todo = <<>>
    /\ gor = <<>>

\* one call of Parser.ParseQuery(q), the maps of q.Filter visited in some order
ParseQuery ==
    /\ pc = "ready"
    /\ \E f \in OrdersOfPairs(q.Filter) :
       \E got \in {<<>>} \cup (IF pool = <<>> THEN {} ELSE {<<pool[1]>>}) :
       \E b \in Builds :
          LET r == onBuild(body(cfg, fields, q, got, f), b)
          IN  /\ ret' = recovered(r)
              /\ visit' = f
              /\ pool' = pooled(pool, got, r)
    /\ pc' = "done"
    /\ UNCHANGED <<cfg, fields, q, newErr, mem, gor, todo>>

Next == ParseQuery

Spec == Init /\ [][Next]_vars

-----------------------------------------------------------------------------
(* Reading a filter document, for the statements below. *)

Done == pc = "done"
Ok == pc = "done" /\ ret.kind = "ok"

IsGroupKey(k) == k = op(cfg, OR) \/ k = op(cfg, AND)

\* the predicates of a document in the order of visit: <<key, operator key, value>>,
\* the operator key of a shorthand entry being the key of eq
RECURSIVE PredsOfPairs(_)
RECURSIVE PredsOfEntry(_)
RECURSIVE ConcatAll(_)
ConcatAll(ss) == IF Len(ss) = 0 THEN <<>> ELSE ss[1] \o ConcatAll(Tail(ss))

PredsOfEntry(e) ==
    LET k == e[1]
        v == e[2]
    IN  IF IsGroupKey(k)
        THEN IF IsArr(v)
             THEN ConcatAll([i \in DOMAIN v.kids |->
                     IF IsObj(Elems(v)[i]) THEN PredsOfPairs(Elems(v)[i].kids) ELSE <<>>])
             ELSE <<>>
        ELSE IF IsObj(v)
             THEN [i \in DOMAIN v.kids |-> <<k, v.kids[i][1], v.kids[i][2]>>]
             ELSE <<<<k, op(cfg, EQ), v>>>>

PredsOfPairs(prs) == ConcatAll([i \in DOMAIN prs |-> PredsOfEntry(prs[i])])

\* the position of the k-th occurrence of the character c in s, 0 if there is none
RECURSIVE NthIndex(_, _, _, _)
NthIndex(s, c, k, from) ==
    IF from > Len(s) THEN 0
    ELSE IF s[from] = c
         THEN IF k = 1 THEN from ELSE NthIndex(s, c, k - 1, from + 1)
         ELSE NthIndex(s, c, k, from + 1)

HasSuffix(s, t) == Len(t) <= Len(s) /\ SubSeq(s, Len(s) - Len(t) + 1, Len(s)) = t

\* the SQL text of an operator key written with the `$` prefix
SqlOf(opKey) ==
    CASE opKey = <<"$","e","q">> -> <<"=">>
      [] opKey = <<"$","n","e","q">> -> <<"<",">">>
      [] opKey = <<"$","l","t">> -> <<"<">>
      [] opKey = <<"$","g","t">> -> <<">">>
      [] opKey = <<"$","l","t","e">> -> <<"<","=">>
      [] opKey = <<"$","g","t","e">> -> <<">","=">>
      [] opKey = <<"$","l","i","k","e">> -> <<"L","I","K","E">>
      [] OTHER -> <<"!">>

\* the column of a schema key: every separator becomes an underscore
RECURSIVE ColumnOf(_)
ColumnOf(k) ==
    IF Len(k) = 0 THEN <<>>
    ELSE IF HasPrefixAt(k, 1, cfg.FieldSep)
         THEN <<"_">> \o ColumnOf(SubSeq(k, Len(cfg.FieldSep) + 1, Len(k)))
         ELSE <<k[1]>> \o ColumnOf(Tail(k))

\* the text `<column> <op> ?` of a predicate
Rendering(p) == ColumnOf(p[1]) \o <<" ">> \o SqlOf(p[2]) \o <<" ", "?">>

\* the value a predicate binds: an integer for an integer field, the value otherwise
Bound(p) ==
    IF fields[p[1]].Type.Kind \in IntKinds \cup UintKinds THEN GoInt(p[3].n) ELSE p[3]

-----------------------------------------------------------------------------
\* C1: in every successful result the number of placeholders in FilterExp is
\* len(FilterArgs), and the k-th placeholder from the left ends the text of the
\* k-th predicate visited, whose converted value is FilterArgs[k]; this for every
\* order of visit of the maps.
C1_PlaceholdersAligned ==
    Ok =>
        LET preds == PredsOfPairs(visit)
            exp == ret.pr.FilterExp
            args == ret.pr.FilterArgs
        IN  /\ Count(exp, "?") = Len(args)
            /\ Len(preds) = Len(args)
            /\ \A k \in DOMAIN args :
                  /\ HasSuffix(SubSeq(exp, 1, NthIndex(exp, "?", k, 1)), Rendering(preds[k]))
                  /\ args[k] = Bound(preds[k])

\* a successful parse of three or more predicates, of two kinds of value, with a
\* group, whose maps were visited in another order than the canonical one
C1_Witness ==
    /\ Ok
    /\ Len(ret.pr.FilterArgs) >= 3
    /\ visit # q.Filter
    /\ \E i \in DOMAIN visit : IsGroupKey(visit[i][1])
    /\ \E i, j \in DOMAIN ret.pr.FilterArgs :
          ret.pr.FilterArgs[i].t = "int" /\ ret.pr.FilterArgs[j].t = "string"

-----------------------------------------------------------------------------
\* C2: ParseQuery returns normally, with a Params or a *ParseError, for every
\* decoded query; no panic escapes to the caller.
C2_NoPanicEscapes == Done => ret.kind \in {"ok", "error"}

-----------------------------------------------------------------------------
\* C3: a call that fails, for whatever reason, returns a nil Params and a non-nil
\* error; a call that succeeds returns a non-nil Params and a nil error.
C3_NilParamsOnFailure ==
    Done =>
        \/ ret.kind = "ok" /\ ~ret.prNil /\ ret.errNil
        \/ ret.kind = "error" /\ ret.prNil /\ ~ret.errNil

-----------------------------------------------------------------------------
\* the field entries <<key, value>> of a document, at every depth
RECURSIVE FieldEntries(_)
FieldEntries(prs) ==
    ConcatAll([i \in DOMAIN prs |->
        LET k == prs[i][1]
            v == prs[i][2]
        IN  IF IsGroupKey(k)
            THEN IF IsArr(v)
                 THEN ConcatAll([j \in DOMAIN v.kids |->
                         IF IsObj(Elems(v)[j]) THEN FieldEntries(Elems(v)[j].kids) ELSE <<>>])
                 ELSE <<>>
            ELSE <<prs[i]>>])

\* the entry filters on a key that is no filterable field of the schema, or applies
\* an operator outside the field's set
Unacceptable(e) ==
    \/ e[1] \notin DOMAIN fields
    \/ ~fields[e[1]].Filterable
    \/ IsObj(e[2]) /\ \E i \in DOMAIN e[2].kids : e[2].kids[i][1] \notin fields[e[1]].FilterOps

KeyErrors ==
    {"unrecognized key %q for filtering", "field %q is not filterable",
     "can not apply op %q on field %q"}

\* C4: a filter with an entry on an unknown key, on a field that is not filterable,
\* or with an operator outside the field's set fails the parse with an error, and
\* no Params is returned; an error of these kinds names the key (and the operator).
C4_UnknownKeyOrOpRejected ==
    Done =>
        /\ (\E i \in DOMAIN FieldEntries(q.Filter) : Unacceptable(FieldEntries(q.Filter)[i]))
              => ret.kind = "error" /\ ret.prNil
        /\ (ret.kind = "error" /\ ret.err[1][1] \in KeyErrors)
              => \E i \in DOMAIN FieldEntries(q.Filter) :
                    /\ Unacceptable(FieldEntries(q.Filter)[i])
                    /\ ret.err[Len(ret.err)] = FieldEntries(q.Filter)[i][1]

-----------------------------------------------------------------------------
(* The expression a document stands for, built from its keys and operators   *)
(* alone.                                                                    *)

Parens(n, s) == IF n > 1 THEN <<"(">> \o s \o <<")">> ELSE s

cAND == <<" ","A","N","D"," ">>
cOR  == <<" ","O","R"," ">>

RECURSIVE ExpOfPairs(_)
RECURSIVE ExpOfEntry(_)

ExpOfEntry(e) ==
    LET k == e[1]
        v == e[2]
    IN  IF IsGroupKey(k)
        THEN Parens(Len(v.kids),
                    Join([i \in DOMAIN v.kids |-> ExpOfPairs(Elems(v)[i].kids)],
                         IF k = op(cfg, OR) THEN cOR ELSE cAND))
        ELSE IF IsObj(v)
             THEN Parens(Len(v.kids),
                         Join([i \in DOMAIN v.kids |-> Rendering(<<k, v.kids[i][1]>>)], cAND))
             ELSE Rendering(<<k, op(cfg, EQ)>>)

ExpOfPairs(prs) == Join([i \in DOMAIN prs |-> ExpOfEntry(prs[i])], cAND)

\* the document with every compared value replaced: a number n by n + 1, a string
\* by itself followed by a quote and a placeholder character
RECURSIVE OtherValues(_)
OtherValues(prs) ==
    [i \in DOMAIN prs |->
        LET v == prs[i][2]
        IN  <<prs[i][1],
              CASE v.t = "float64" -> [v EXCEPT !.n = @ + 1]
                [] v.t = "string" -> [v EXCEPT !.s = @ \o <<"'", "?">>]
                [] v.t \in {"map", "slice"} -> [v EXCEPT !.kids = OtherValues(@)]
                [] OTHER -> v>>]

\* the columns of the schema's sortable fields
SortableColumns == {ColumnOf(k) : k \in {x \in DOMAIN fields : fields[x].Sortable}}

\* the parts of s between the occurrences of `, `
RECURSIVE SplitComma(_, _)
SplitComma(s, acc) ==
    IF Len(s) = 0 THEN <<acc>>
    ELSE IF HasPrefixAt(s, 1, <<",", " ">>)
         THEN <<acc>> \o SplitComma(SubSeq(s, 3, Len(s)), <<>>)
         ELSE SplitComma(Tail(s), Append(acc, s[1]))

\* C5: in every successful result FilterExp is the text that the document's keys
\* and operators alone determine (columns, operator renderings, `?`, connectives,
\* parentheses), Sort is made of sortable columns with an optional asc/desc, and the
\* same query with other values compared gives the same FilterExp and Sort, the
\* values showing in FilterArgs only.
C5_ValuesOnlyInArgs ==
    Ok =>
        /\ ret.pr.FilterExp = ExpOfPairs(visit)
        /\ ret.pr.Sort # <<>> =>
              \A i \in DOMAIN SplitComma(ret.pr.Sort, <<>>) :
                  SplitComma(ret.pr.Sort, <<>>)[i] \in
                      SortableColumns
                          \cup {col \o <<" ","a","s","c">> : col \in SortableColumns}
                          \cup {col \o <<" ","d","e","s","c">> : col \in SortableColumns}
        /\ LET other == recovered(body(cfg, fields, q, <<>>, OtherValues(visit)))
           IN  /\ other.kind = "ok"
               /\ other.pr.FilterExp = ret.pr.FilterExp
               /\ other.pr.Sort = ret.pr.Sort
               /\ Len(other.pr.FilterArgs) = Len(ret.pr.FilterArgs)
               /\ \A k \in DOMAIN ret.pr.FilterArgs :
                     other.pr.FilterArgs[k] # ret.pr.FilterArgs[k]

\* a successful parse with a string value, a number value and a sort clause
C5_Witness ==
    /\ Ok
    /\ ret.pr.Sort # <<>>
    /\ \E i, j \in DOMAIN ret.pr.FilterArgs :
          ret.pr.FilterArgs[i].t = "string" /\ ret.pr.FilterArgs[j].t = "int"

-----------------------------------------------------------------------------
\* the parse of the query with filter f in place of its own
ParseWith(f) == recovered(body(cfg, fields, [q EXCEPT !.Filter = f], <<>>, f))

\* C6: for a filterable field and a value that is no object, the shorthand
\* {field: v} and {field: {"$eq": v}} both succeed or both fail, and when they
\* succeed they give the same predicate text and the same single argument.
C6_ShorthandIsEq ==
    (/\ Done
     /\ Len(q.Filter) = 1
     /\ q.Filter[1][1] \in DOMAIN fields
     /\ fields[q.Filter[1][1]].Filterable
     /\ ~IsObj(q.Filter[1][2]))
    => LET k == q.Filter[1][1]
           v == q.Filter[1][2]
           long == ParseWith(<<<<k, Obj(<<<<op(cfg, EQ), v>>>>)>>>>)
       IN  /\ long.kind = ret.kind
           /\ long.kind \in {"ok", "error"}
           /\ long.pr.FilterExp = ret.pr.FilterExp
           /\ long.pr.FilterArgs = ret.pr.FilterArgs
           /\ ret.kind = "ok" =>
                 /\ Len(ret.pr.FilterArgs) = 1
                 /\ ret.pr.FilterExp = ColumnOf(k) \o <<" ", "=", " ", "?">>

\* the shorthand accepted on an integer field, and bound as an integer
C6_Witness ==
    /\ Ok
    /\ Len(q.Filter) = 1
    /\ q.Filter[1][1] = kAge
    /\ ~IsObj(q.Filter[1][2])
    /\ ret.pr.FilterArgs = <<GoInt(12)>>

\* the shorthand refused: a number with a fraction for an integer field
C6_WitnessRefused ==
    /\ Done
    /\ ret.kind = "error"
    /\ q.Filter = <<<<kAge, Frac(1)>>>>

-----------------------------------------------------------------------------
\* what the compiler writes for the entries prs compiled on their own
Compile(prs) == and(cfg, fields, NewState, prs).buf

\* the group entries of a document, at every depth
RECURSIVE GroupEntries(_)
GroupEntries(prs) ==
    ConcatAll([i \in DOMAIN prs |->
        IF IsGroupKey(prs[i][1]) /\ IsArr(prs[i][2])
        THEN <<prs[i]>> \o
             ConcatAll([j \in DOMAIN prs[i][2].kids |->
                 IF IsObj(Elems(prs[i][2])[j])
                 THEN GroupEntries(Elems(prs[i][2])[j].kids) ELSE <<>>])
        ELSE <<>>])

-----------------------------------------------------------------------------
-----------------------------------------------------------------------------
PagingErrors ==
    {"offset must be greater than or equal to 0",
     "limit must be greater than 0 and less than or equal to %d"}

PagingOk == q.Offset >= 0 /\ (q.Limit = 0 \/ (0 < q.Limit /\ q.Limit <= cfg.LimitMaxValue))

C9_WitnessRefused ==
    /\ Done
    /\ q.Offset = 0
    /\ q.Limit = cfg.LimitMaxValue + 1
    /\ ret.kind = "error"

-----------------------------------------------------------------------------
\* the rendering of one sort entry
SortRendering(e) ==
    CASE e # <<>> /\ e[1] = "-" -> ColumnOf(Tail(e)) \o <<" ","d","e","s","c">>
      [] e # <<>> /\ e[1] = "+" -> ColumnOf(Tail(e)) \o <<" ","a","s","c">>
      [] OTHER -> ColumnOf(e)

-----------------------------------------------------------------------------
\* the field a sort entry names, its optional direction prefix stripped
SortName(e) == IF e # <<>> /\ e[1] \in {"+", "-"} THEN Tail(e) ELSE e

\* the entry is empty, or names no sortable field of the schema
BadSortEntry(e) ==
    \/ e = <<>>
    \/ SortName(e) \notin DOMAIN fields
    \/ ~fields[SortName(e)].Sortable

\* the sort errors, and the field each one names
SortErrorOf(e) ==
    CASE e = <<>> -> Errorf("sort field can not be empty", <<>>)
      [] e # <<>> /\ SortName(e) \notin DOMAIN fields ->
            Errorf("unrecognized key %q for sorting", <<SortName(e)>>)
      [] OTHER -> Errorf("field %q is not sortable", <<SortName(e)>>)

\* the first bad entry of a sort list
FirstBad(list) ==
    list[CHOOSE i \in DOMAIN list :
            /\ BadSortEntry(list[i])
            /\ \A j \in 1..(i - 1) : ~BadSortEntry(list[j])]

\* the offset, the limit and the filter are accepted
FilterStagePasses == PagingOk /\ ~Panicking(and(cfg, fields, NewState, visit))

\* C11: a sort list with an empty entry, a bare `+` / `-`, an unknown field or a
\* field without the `sort` option never parses; when the paging values and the
\* filter are valid the parse fails with the error of the first such entry, and
\* a list of sortable fields only raises no sort error.
C11_SortEntriesChecked ==
    Done =>
        /\ (\E i \in DOMAIN q.Sort : BadSortEntry(q.Sort[i])) => ret.kind # "ok"
        /\ FilterStagePasses /\ (\E i \in DOMAIN q.Sort : BadSortEntry(q.Sort[i])) =>
              ret.kind = "error" /\ ret.err = SortErrorOf(FirstBad(q.Sort))
        /\ FilterStagePasses /\ q.Sort # <<>>
              /\ (\A i \in DOMAIN q.Sort : ~BadSortEntry(q.Sort[i])) => ret.kind = "ok"

\* a valid filter with a sort on `name`, which has no `sort` option: refused
C11_Witness ==
    /\ Done
    /\ q.Filter = <<Atoms(cfg)[1], Atoms(cfg)[2]>>
    /\ q.Sort = <<kName>>
    /\ ret.kind = "error"
    /\ ret.err = Errorf("field %q is not sortable", <<kName>>)

\* a bare `+` after a sortable entry: refused as an unrecognized key
C11_WitnessBare ==
    /\ Done
    /\ Len(q.Sort) = 2
    /\ q.Sort[1] = kAge
    /\ q.Sort[2] = <<"+">>
    /\ ret.kind = "error"

-----------------------------------------------------------------------------
(* Construction followed by one call: NewParser on a configuration, then      *)
(* ParseQuery on the parser it returned.                                      *)

SchemaCfg(model, sep, defaultSort) ==
    [Model |-> model, OpPrefix |-> <<>>, FieldSep |-> sep,
     DefaultLimit |-> 0, LimitMaxValue |-> 0, DefaultSort |-> defaultSort]

Case(c, query) == [cfg |-> c, q |-> query]

\* default sort lists over a sortable field, a nested one and an unsortable one
DefaultSorts ==
    TuplesUpTo({<<"-">> \o kAge, <<"a","d","d","r","e","s","s",".","n","a","m","e">>, kName}, 2)

DefaultSortCases ==
    {Case(SchemaCfg(UserModel, <<".">>, ds), Query(0, 0, <<>>, srt, f)) :
        ds \in DefaultSorts,
        srt \in {<<>>, <<<<"+">> \o kAge>>, <<kName>>},
        f \in {<<>>, <<<<kAge, Num(12)>>, <<kName, vDC>>>>, <<<<kName, Num(12)>>>>}}

cPlanB == <<"P","l","a","n","B">>

\* t behind n pointers
RECURSIVE Ptrs(_, _)
Ptrs(t, n) == IF n = 0 THEN t ELSE TPtr(Ptrs(t, n - 1))

\* struct {
\*     P **struct {            (or the embedded field P, for anon)
\*         Name string `rql:"filter"`
\*     }
\* }
NestedModel(p, n, anon) ==
    TStruct(<<
        StructField(p, anon, FALSE, <<>>, Ptrs(TStruct(<<
            StructField(cName, FALSE, TRUE, <<Opt("filter")>>, TString)>>), n))>>)

\* the keys a caller may try for the nested field Name of P
NestedKeys(p, sep) ==
    {Column(p) \o sep \o Column(cName), Column(p \o sep \o cName), Column(cName)}

NestingCasesOf(p) ==
    {Case(SchemaCfg(NestedModel(p, n, anon), sep, <<>>),
          Query(0, 0, <<>>, <<>>, <<<<k, vDC>>>>)) :
        n \in 0..2, anon \in BOOLEAN, sep \in {<<".">>, <<>>},
        k \in NestedKeys(p, <<".">>) \cup NestedKeys(p, DefaultFieldSep)}

NestingCases == NestingCasesOf(cAddress) \cup NestingCasesOf(cPlanB)

cV == <<"V">>
kV == <<"v">>

\* struct {
\*     V T `rql:"filter"`
\* }
TypedModel(t) == TStruct(<<StructField(cV, FALSE, TRUE, <<Opt("filter")>>, t)>>)

\* the types of V: the kinds, defined types (type JobType int), pointers, the
\* wrappers of database/sql, time.Time and a type defined as time.Time
FieldTypes ==
    {TBool, TString, TInt, TKind("int8"), TKind("int64"), TUint, TKind("uint8"),
     TKind("uint64"), TFloat64, TKind("float32"), TTime, TTimeLike("Stamp"),
     TDefined("JobType", "int"), TDefined("Title", "string"), TPtr(TInt),
     TPtr(TPtr(TString)), TNamed("sql.NullBool"), TNamed("sql.NullString"),
     TNamed("sql.NullInt64"), TNamed("sql.NullFloat64")}

\* the values offered to V: 2.0, -1, 1.5, the ends of int8 and beyond, 1e19 and
\* -1e19 (integral, and outside the range of int64), and values of other types
FieldValues ==
    {Bool(TRUE), vDC, Str(vTime), Null, Num(2), Num(-1), Frac(1), Num(127),
     Num(128), Num(300), Big("1e19"), Big("-1e19")}

\* the operator keys tried on V
TriedOps == {DefaultOpPrefix \o o : o \in {EQ, NEQ, LT, LTE, GT, GTE, LIKE, <<"x">>}}

TypeCases ==
    {Case(SchemaCfg(TypedModel(t), <<>>, <<>>), Query(0, 0, <<>>, <<>>, <<<<kV, v>>>>)) :
        t \in FieldTypes,
        v \in FieldValues \cup {Obj(<<<<o, w>>>>) : o \in TriedOps, w \in FieldValues}}

cID   == <<"I","D">>
cTags == <<"T","a","g","s">>

fName == StructField(cName, FALSE, TRUE, <<Opt("filter")>>, TString)

\* struct { Name string `rql:"filter"`; Tags T }, Tags tagged or not
WithTags(t, tagged) ==
    TStruct(<<fName,
              StructField(cTags, FALSE, tagged, IF tagged THEN <<Opt("filter")>> ELSE <<>>, t)>>)

\* types GetSupportedOps has no operators for
OpaqueTypes == {TInterface, TSlice(TString), TPtr(TSlice(TString)), TNamed("Point")}

\* the models handed to NewParser: none, ones that are no struct, structs with a
\* field of a type without operators (tagged or not, at the top, in a nested
\* struct, in an embedded one), and a struct embedding a type that is no struct
CtorModels ==
    {TNil, TInt, TPtr(TInterface), TPtr(TPtr(TInt)), TStruct(<<fName>>),
     TPtr(TStruct(<<fName>>)),
     TStruct(<<StructField(cID, TRUE, FALSE, <<>>, TDefined("ID", "int")), fName>>)}
    \cup {WithTags(t, tagged) : t \in OpaqueTypes, tagged \in BOOLEAN}
    \cup {TStruct(<<fName, StructField(cAddress, anon, FALSE, <<>>, Ptrs(WithTags(t, tagged), n))>>) :
            t \in OpaqueTypes, tagged \in BOOLEAN, anon \in BOOLEAN, n \in 0..1}

CtorCases ==
    {Case(SchemaCfg(m, <<>>, <<>>), Query(0, 0, <<>>, <<>>, f)) :
        m \in CtorModels, f \in {<<>>, <<<<kName, vDC>>>>}}

\* operator prefixes: the default one, another character, and longer ones
Prefixes == {<<>>, <<"@">>, <<"o","p",":">>, <<"$","$">>}

\* {"age": {K: 12}} and {K: [{"age": 12}, {"name": "DC"}]} for the keys K made of
\* a prefix and an operator's name
PrefixFilters ==
    {<<<<kAge, Obj(<<<<x \o o, Num(12)>>>>)>>>> :
        x \in (Prefixes \ {<<>>}) \cup {DefaultOpPrefix}, o \in {EQ, GTE, LT}}
    \cup {<<<<x \o o, Arr(<<Obj(<<<<kAge, Num(12)>>>>), Obj(<<<<kName, vDC>>>>)>>)>>>> :
            x \in (Prefixes \ {<<>>}) \cup {DefaultOpPrefix}, o \in {OR, AND}}

PrefixCases ==
    {Case([SchemaCfg(UserModel, <<>>, <<>>) EXCEPT !.OpPrefix = x],
          Query(0, 0, <<>>, <<>>, f)) : x \in Prefixes, f \in PrefixFilters}

\* the longest field name of the naming cases
MaxName == 4

\* field names: a letter, then capitals, small letters and digits
FieldNames ==
    {n \in UNION {[1..k -> {"A", "B", "a", "1"}] : k \in 1..MaxName} : IsLetter(n[1])}

\* struct {
\*     <name> string `rql:"filter"`
\* }
NamedModel(name) == TStruct(<<StructField(name, FALSE, TRUE, <<Opt("filter")>>, TString)>>)

NameCases ==
    {Case(SchemaCfg(NamedModel(n), <<>>, <<>>), Query(0, 0, <<>>, <<>>, <<>>)) :
        n \in FieldNames}

cNick == <<"N","i","c","k">>
cAddressName == cAddress \o cName

\* models with two tagged fields of one column name:
\*     struct { Name string `rql:"filter"`; Nick int `rql:"filter,sort,column=name"` }
\*     struct { Name string `rql:"filter"`; Inner }, Inner having Name int `rql:"filter,sort"`
\*     struct { AddressName int `rql:"filter,sort"`; Address struct { Name string `rql:"filter"` } }
ShadowModels ==
    {TStruct(<<fName,
               StructField(cNick, FALSE, TRUE,
                           <<Opt("filter"), Opt("sort"), OptColumn(Column(cName))>>, TInt)>>),
     TStruct(<<fName,
               StructField(<<"I","n","n","e","r">>, TRUE, FALSE, <<>>,
                           TStruct(<<StructField(cName, FALSE, TRUE,
                                                 <<Opt("filter"), Opt("sort")>>, TInt)>>))>>),
     TStruct(<<StructField(cAddressName, FALSE, TRUE, <<Opt("filter"), Opt("sort")>>, TInt),
               StructField(cAddress, FALSE, FALSE, <<>>, TStruct(<<fName>>))>>)}

ShadowCases ==
    {Case(SchemaCfg(m, sep, <<>>), Query(0, 0, <<>>, <<>>, <<<<k, v>>>>)) :
        m \in ShadowModels, sep \in {<<>>, <<".">>},
        k \in {kName, Column(cAddressName), Column(cAddress) \o <<".">> \o Column(cName)},
        v \in {vDC, Num(12)}}

\* configurations with DefaultLimit and LimitMaxValue left out, negative, and
\* on either side of each other, and the paging values around them
LimitCases ==
    {Case([SchemaCfg(UserModel, <<>>, <<>>) EXCEPT !.DefaultLimit = d, !.LimitMaxValue = m],
          Query(o, l, <<>>, <<>>, <<>>)) :
        d \in {0 - 1, 0, 2, 5}, m \in {0 - 1, 0, 3},
        o \in {0 - 1, 0, 1}, l \in {0 - 1, 0, 1, 3, 4}}

SchemaCases ==
    DefaultSortCases \cup NestingCases \cup TypeCases \cup CtorCases \cup PrefixCases
        \cup NameCases \cup ShadowCases \cup LimitCases

InitSchema ==
    /\ \E k \in SchemaCases : cfg = k.cfg /\ q = k.q
    /\ fields = <<>>
    /\ pc = "new"
    /\ ret = [kind |-> "none", prNil |-> TRUE, pr |-> NilParams,
              errNil |-> TRUE, err |-> NoErr]
    /\ visit = <<>>
    /\ pool = <<>>
    /\ newErr = ""
    /\ mem = NoMem
    /\ todo = <<>>
    /\ gor = <<>>

\* NewParser(cfg): the parser, or the error and no parser
NewParserStep ==
    /\ pc = "new"
    /\ LET p == NewParser(cfg)
       IN  /\ newErr' = p.built.err
           /\ IF p.built.err = ""
              THEN cfg' = p.cfg /\ fields' = p.built.fields /\ pc' = "ready"
              ELSE cfg' = cfg /\ fields' = <<>> /\ pc' = "failed"
    /\ UNCHANGED <<q, ret, visit, pool, mem, gor, todo>>

NextSchema == NewParserStep \/ ParseQuery

SpecSchema == InitSchema /\ [][NextSchema]_vars

-----------------------------------------------------------------------------
HasBad(list) == \E i \in DOMAIN list : BadSortEntry(list[i])
RenderedSort(list) ==
    Join([i \in DOMAIN list |-> SortRendering(list[i])], <<",", " ">>)

\* the outcome of compiling the sort list `list` after a valid filter
SortOutcomeIs(list) ==
    IF HasBad(list)
    THEN ret.kind = "error" /\ ret.err = SortErrorOf(FirstBad(list))
    ELSE ret.kind = "ok" /\ ret.pr.Sort = RenderedSort(list)

\* C12: after valid paging values and a valid filter, a query without sort
\* entries gets the outcome of compiling DefaultSort (its error if an entry of it
\* is bad, its rendering otherwise), and a query with sort entries gets the
\* outcome of compiling its own list, whatever DefaultSort holds.
C12_DefaultSort ==
    Done /\ FilterStagePasses =>
        IF q.Sort = <<>> THEN SortOutcomeIs(cfg.DefaultSort) ELSE SortOutcomeIs(q.Sort)

\* no sort in the query, DefaultSort ["-age", "address.name"]
C12_Witness ==
    /\ Ok
    /\ q.Sort = <<>>
    /\ cfg.DefaultSort = <<<<"-">> \o kAge, kAddressName(cfg)>>
    /\ ret.pr.Sort = <<"a","g","e"," ","d","e","s","c",",", " ",
                       "a","d","d","r","e","s","s","_","n","a","m","e">>

\* the query's own list compiled while DefaultSort holds an unsortable field
C12_WitnessUnused ==
    /\ Ok
    /\ q.Sort = <<<<"+">> \o kAge>>
    /\ kName \in Range(cfg.DefaultSort)
    /\ ret.pr.Sort = <<"a","g","e"," ","a","s","c">>

\* no sort in the query and an unsortable field in DefaultSort: refused
C12_WitnessRefused ==
    /\ Done
    /\ q.Sort = <<>>
    /\ q.Filter = <<>>
    /\ cfg.DefaultSort = <<kName>>
    /\ ret.kind = "error"

-----------------------------------------------------------------------------
(* Concurrent calls of ParseQuery.  mem.ps holds the parseState objects ever  *)
(* allocated (a reference is an index): the buffer's bytes, the array and     *)
(* length of the `values` slice, and the embedded *Parser.  mem.arrays holds  *)
(* the backing arrays of the `values` slices, mem.pool the parseStatePool.    *)
(* A goroutine owns nothing but references, so every read below reads what    *)
(* the memory holds at that moment.                                           *)

Procs == {1, 2}

\* the parsers the goroutines call: one per configuration
ConcParsers == [i \in 1..2 |-> NewParser(
    IF i = 1 THEN SchemaCfg(UserModel, <<".">>, <<>>)
    ELSE SchemaCfg(UserModel, <<>>, <<<<"-">> \o kAge>>))]

vNY == Str(<<"N","Y">>)

\* the queries of the calls on parser c: two that compile, and one whose filter
\* fails on its second entry, after the first was written
ConcQueries(c) ==
    {Query(0, 0, <<>>, <<<<"-">> \o kAge>>, <<<<kAge, Num(12)>>, <<kName, vDC>>>>),
     Query(0, 0, <<>>, <<>>, <<<<kAddressName(c), vNY>>>>),
     Query(0, 0, <<>>, <<>>, <<<<kName, vNY>>, <<kAge, vDC>>>>)}

\* the calls entered so far
Started(g) ==
    LET n(i) == g[i].calls + (IF g[i].pc = "idle" THEN 0 ELSE 1)
    IN  n(1) + n(2)

\* a newParseState that keeps the backing array of the pooled state's values
newParseStateIn_keeps_values(m, got, p) ==
    LET id == IF got # 0 THEN got ELSE Len(m.ps) + 1
        reuse == got # 0 /\ m.ps[got].vals # 0
        arr == IF reuse THEN m.ps[got].vals ELSE Len(m.arrays) + 1
        obj == [buf |-> <<>>, vals |-> arr, vlen |-> 0, parser |-> p]
    IN  [id |-> id,
         mem |-> [m EXCEPT !.ps = IF got # 0 THEN [@ EXCEPT ![got] = obj]
                                  ELSE Append(@, obj),
                           !.arrays = IF reuse THEN @ ELSE Append(@, <<>>)]]

\* a newParseState that leaves the pooled state's parser in place
newParseStateIn_keeps_parser(m, got, p) ==
    LET id == IF got # 0 THEN got ELSE Len(m.ps) + 1
        obj == [buf |-> <<>>, vals |-> Len(m.arrays) + 1, vlen |-> 0,
                parser |-> IF got # 0 THEN m.ps[got].parser ELSE p]
    IN  [id |-> id,
         mem |-> [m EXCEPT !.ps = IF got # 0 THEN [@ EXCEPT ![got] = obj]
                                  ELSE Append(@, obj),
                           !.arrays = Append(@, <<>>)]]

\* Parser.newParseState in the memory m: got is the reference parseStatePool.Get
\* returned (0 for nil).  A pooled state is Reset and loses its values; a new one
\* gets a new buffer; either gets a newly made values array and the parser p.
newParseStateIn(m, got, p) ==
    LET id == IF got # 0 THEN got ELSE Len(m.ps) + 1
        obj == [buf |-> <<>>, vals |-> Len(m.arrays) + 1, vlen |-> 0, parser |-> p]
    IN  [id |-> id,
         mem |-> [m EXCEPT !.ps = IF got # 0 THEN [@ EXCEPT ![got] = obj]
                                  ELSE Append(@, obj),
                           !.arrays = Append(@, <<>>)]]

\* the parse state a reference denotes, as the memory holds it now
Load(m, id) ==
    [buf |-> m.ps[id].buf,
     values |-> SubSeq(m.arrays[m.ps[id].vals], 1, m.ps[id].vlen),
     panic |-> NoPanic]

\* the memory after the writes that took the state `id` to ps: the buffer's bytes,
\* and the values appended in place in the slice's backing array
Store(m, id, ps) ==
    LET arr == m.ps[id].vals
        old == m.arrays[arr]
    IN  [m EXCEPT !.ps[id].buf = ps.buf,
                  !.ps[id].vlen = Len(ps.values),
                  !.arrays[arr] = ps.values \o SubSeq(old, Len(ps.values) + 1, Len(old))]

\* what a call handed to its caller; FilterArgs is the slice (array and length)
Returned(query, p, r, arr, len) ==
    [q |-> query, p |-> p, kind |-> r.kind, err |-> r.err, pr |-> r.pr,
     arr |-> arr, len |-> len]

Idle(g) == [g EXCEPT !.pc = "idle", !.ps = 0, !.k = 0, !.calls = @ + 1]

InitConc ==
    /\ cfg = ConcParsers[1].cfg
    /\ fields = ConcParsers[1].built.fields
    /\ q = Query(0, 0, <<>>, <<>>, <<>>)
    /\ pc = "concurrent"
    /\ ret = [kind |-> "none", prNil |-> TRUE, pr |-> NilParams,
              errNil |-> TRUE, err |-> NoErr]
    /\ visit = <<>>
    /\ pool = <<>>
    /\ newErr = ""
    /\ mem = NoMem
    /\ todo = <<>>
    /\ \E other \in 1..2 :
          gor = [i \in Procs |->
                    [pc |-> "idle", p |-> IF i = 1 THEN 1 ELSE other,
                     q |-> Query(0, 0, <<>>, <<>>, <<>>), ps |-> 0, k |-> 0,
                     calls |-> 0, held |-> <<>>]]

\* goroutine i enters ParseQuery: the paging checks and newParseState
Get(i) ==
    /\ gor[i].pc = "idle"
    /\ Started(gor) < MaxCalls
    /\ \E query \in ConcQueries(ConcParsers[gor[i].p].cfg) :
       \E got \in mem.pool \cup {0} :
          LET c == ConcParsers[gor[i].p].cfg
              r0 == paging(c, query)
              n == newParseStateIn([mem EXCEPT !.pool = @ \ {got}], got, gor[i].p)
          IN  IF r0.panic.kind # ""
              THEN /\ gor' = [gor EXCEPT ![i] = Idle([@ EXCEPT !.held = Append(@,
                                 Returned(query, gor[i].p,
                                     recovered([pr |-> r0.pr, panic |-> r0.panic,
                                                ps |-> NewState]), 0, 0))])]
                   /\ mem' = mem
              ELSE /\ gor' = [gor EXCEPT ![i] = [@ EXCEPT !.pc = "and", !.q = query,
                                                         !.ps = n.id, !.k = 1]]
                   /\ mem' = n.mem
    /\ UNCHANGED <<cfg, fields, q, pc, ret, visit, pool, newErr, todo>>

\* goroutine i runs one iteration of ps.and(q.Filter) on the state it holds,
\* with the parser that state embeds
AndStep(i) ==
    /\ gor[i].pc = "and"
    /\ gor[i].k <= Len(gor[i].q.Filter)
    /\ LET id == gor[i].ps
           P == ConcParsers[mem.ps[id].parser]
           new == andStep(P.cfg, P.built.fields, Load(mem, id), gor[i].q.Filter, gor[i].k)
       IN  /\ mem' = Store(mem, id, new)
           /\ gor' = [gor EXCEPT ![i] =
                 IF Panicking(new)
                 THEN Idle([@ EXCEPT !.held = Append(@,
                         Returned(gor[i].q, gor[i].p,
                             recovered([pr |-> NilParams, panic |-> new.panic,
                                        ps |-> NewState]), 0, 0))])
                 ELSE [@ EXCEPT !.k = @ + 1]]
    /\ UNCHANGED <<cfg, fields, q, pc, ret, visit, pool, newErr, todo>>

\* goroutine i leaves ParseQuery: FilterExp and FilterArgs taken from the state,
\* the sort and select clauses, parseStatePool.Put, return
Finish(i) ==
    /\ gor[i].pc = "and"
    /\ gor[i].k > Len(gor[i].q.Filter)
    /\ LET id == gor[i].ps
           P == ConcParsers[gor[i].p]
           r0 == paging(P.cfg, gor[i].q)
           r1 == [pr |-> [r0.pr EXCEPT !.FilterExp = mem.ps[id].buf],
                  panic |-> NoPanic, ps |-> NewState]
           r2 == selecting(sorting(P.cfg, P.built.fields, r1, gor[i].q), gor[i].q)
       IN  /\ mem' = IF r2.panic.kind = "" THEN [mem EXCEPT !.pool = @ \cup {id}] ELSE mem
           /\ gor' = [gor EXCEPT ![i] = Idle([@ EXCEPT !.held = Append(@,
                         Returned(gor[i].q, gor[i].p, recovered(r2),
                                  mem.ps[id].vals, mem.ps[id].vlen))])]
    /\ UNCHANGED <<cfg, fields, q, pc, ret, visit, pool, newErr, todo>>

NextConc == \E i \in Procs : Get(i) \/ AndStep(i) \/ Finish(i)

SpecConc == InitConc /\ [][NextConc]_vars

\* the Params of a returned result as its holder reads it now
Deref(h) == [h.pr EXCEPT !.FilterArgs = SubSeq(mem.arrays[h.arr], 1, h.len)]

\* the result of the same call made alone on the same parser
Alone(h) ==
    recovered(body(ConcParsers[h.p].cfg, ConcParsers[h.p].built.fields,
                   h.q, <<>>, h.q.Filter))

\* C13: at every moment of every interleaving, each result handed to a caller so
\* far, read at that moment, is the result of its call made alone: the same
\* error, or the same Params with the same FilterExp and FilterArgs.
C13_CallsIsolated ==
    pc = "concurrent" =>
        \A i \in Procs : \A j \in DOMAIN gor[i].held :
            LET h == gor[i].held[j]
                a == Alone(h)
            IN  /\ h.kind = a.kind
                /\ h.err = a.err
                /\ h.kind = "ok" => Deref(h) = a.pr

\* a goroutine holds a Params whose parse state another goroutine, on another
\* parser, took from the pool and is writing
C13_Witness ==
    /\ pc = "concurrent"
    /\ \E i, j \in Procs :
          /\ i # j
          /\ gor[i].held # <<>>
          /\ gor[i].held[1].kind = "ok"
          /\ gor[i].held[1].len = 2
          /\ gor[j].pc = "and"
          /\ gor[j].k = 2
          /\ gor[j].p # gor[i].p
          /\ mem.pool = {}
          /\ Len(mem.ps) = 1

\* a call failed midway while the other goroutine holds a returned Params
C13_WitnessFailed ==
    /\ pc = "concurrent"
    /\ \E i, j \in Procs :
          /\ i # j
          /\ Len(gor[i].held) = 2
          /\ gor[i].held[1].kind = "ok"
          /\ gor[i].held[2].kind = "error"
          /\ gor[j].held # <<>>
          /\ gor[j].held[1].kind = "ok"

-----------------------------------------------------------------------------
\* what the call returns when the maps of the filter are visited in the order f
OutcomeOf(f) == recovered(body(cfg, fields, q, <<>>, f))

\* C14: a query that failed fails with the same error in every order in which
\* the sibling keys of its filter's objects can be visited.
C14_SameErrorEveryOrder ==
    Done /\ ret.kind # "ok" =>
        \A f \in OrdersOfPairs(q.Filter) :
            OutcomeOf(f).kind = ret.kind /\ OutcomeOf(f).err = ret.err

\* {"age": "DC", "name": 12}: one order reports the error of age, the other one
\* the error of name
C14_TwoErrors ==
    /\ Done
    /\ q.Filter = <<<<kName, Num(12)>>, <<kAge, vDC>>>>
    /\ ret.kind = "error"
    /\ ret.err[2] = kAge
    /\ \E f \in OrdersOfPairs(q.Filter) :
          OutcomeOf(f).kind = "error" /\ OutcomeOf(f).err[2] = kName

-----------------------------------------------------------------------------
\* a model of one untagged field P whose type, behind its pointers, is a struct of
\* one tagged field F
IsNesting(m) ==
    /\ indirect(m).Kind = "struct"
    /\ Len(indirect(m).Fields) = 1
    /\ ~indirect(m).Fields[1].HasTag
    /\ indirect(indirect(m).Fields[1].Type).Kind = "struct"
    /\ Len(indirect(indirect(m).Fields[1].Type).Fields) = 1
    /\ indirect(indirect(m).Fields[1].Type).Fields[1].HasTag

ParentOf(m) == indirect(m).Fields[1]
NestedOf(m) == indirect(ParentOf(m).Type).Fields[1]

\* the key under which F is to be exposed: column(P) + FieldSep + column(F), and
\* column(F) alone for an embedded P
ExposedKey(c) ==
    IF ParentOf(c.Model).Anonymous THEN Column(NestedOf(c.Model).Name)
    ELSE Column(ParentOf(c.Model).Name) \o c.FieldSep \o Column(NestedOf(c.Model).Name)

\* C15: the tagged field F of an untagged nested struct field P is in the schema
\* under column(P) + FieldSep + column(F), under column(F) when P is embedded, and
\* a filter on that key compiles to the key with every separator turned into "_".
C15_NestedKey ==
    pc \in {"ready", "done"} /\ IsNesting(cfg.Model) =>
        /\ ExposedKey(cfg) \in DOMAIN fields
        /\ Done /\ q.Filter = <<<<ExposedKey(cfg), vDC>>>> =>
              /\ ret.kind = "ok"
              /\ ret.pr.FilterExp =
                    ReplaceAll(ExposedKey(cfg), cfg.FieldSep, <<"_">>) \o <<" ", "=", " ", "?">>
              /\ ret.pr.FilterArgs = <<vDC>>

\* Address behind two pointers, separator ".": address.name compiled to address_name
C15_WitnessAddress ==
    /\ Done
    /\ cfg.Model = NestedModel(cAddress, 2, FALSE)
    /\ q.Filter = <<<<kAddressName(cfg), vDC>>>>
    /\ cfg.FieldSep = <<".">>
    /\ ret.kind = "ok"
    /\ ret.pr.FilterExp = <<"a","d","d","r","e","s","s","_","n","a","m","e"," ","=", " ","?">>

\* PlanB: the key column(P) + FieldSep + column(F) is refused as an unknown field
C15_WitnessPlanB ==
    /\ Done
    /\ cfg.Model = NestedModel(cPlanB, 0, FALSE)
    /\ q.Filter = <<<<ExposedKey(cfg), vDC>>>>
    /\ ret.kind = "error"

-----------------------------------------------------------------------------
\* the model struct { V T `rql:"filter"` }
IsTyped(m) ==
    /\ m.Kind = "struct"
    /\ Len(m.Fields) = 1
    /\ m.Fields[1].Name = cV
    /\ m.Fields[1].HasTag

\* the type of V with its pointers removed
TypeOfV == indirect(cfg.Model.Fields[1].Type)

IsNullable(t) ==
    t.Named \in {"sql.NullBool", "sql.NullString", "sql.NullInt64", "sql.NullFloat64"}

Comparisons == {EQ, NEQ, LT, LTE, GT, GTE}

\* the operators the underlying kind of a field's type is to have
OpsOfKind(t) ==
    CASE t.Kind = "bool" -> {EQ, NEQ}
      [] t.Kind = "string" -> Comparisons \cup {LIKE}
      [] t.Kind \in IntKinds \cup UintKinds \cup FloatKinds -> Comparisons
      [] t.Kind = "struct" /\ t.Under = "time.Time" -> Comparisons
      [] OTHER -> {}

\* values that are valid for a field of type t, whatever the reading of "valid"
ValidValues(t) ==
    CASE t.Kind = "bool" -> {Bool(TRUE)}
      [] t.Kind = "string" -> {vDC}
      [] t.Kind \in IntKinds -> {Num(2), Num(-1)}
      [] t.Kind \in UintKinds -> {Num(2)}
      [] t.Kind \in FloatKinds -> {Num(2), Frac(1)}
      [] t.Kind = "struct" /\ t.Under = "time.Time" -> {Str(vTime)}
      [] OTHER -> {}

\* the query is {"filter": {"v": {o: w}}}
OneOperator(o, w) == q.Filter = <<<<kV, Obj(<<<<o, w>>>>)>>>>

C16_WitnessRefused ==
    /\ Done
    /\ cfg.Model = TypedModel(TTime)
    /\ OneOperator(op(cfg, LIKE), Str(vTime))
    /\ ret.kind = "error"

-----------------------------------------------------------------------------
\* the scalar type a wrapper of database/sql stands for
ScalarOf(t) ==
    CASE t.Named = "sql.NullBool"    -> TBool
      [] t.Named = "sql.NullString"  -> TString
      [] t.Named = "sql.NullInt64"   -> TKind("int64")
      [] t.Named = "sql.NullFloat64" -> TFloat64

\* the schema entry V would have with the scalar type in place of the wrapper
AsScalar ==
    parseField(cfg, StructField(cV, FALSE, TRUE, <<Opt("filter")>>, ScalarOf(TypeOfV))).f

\* what the query gives when V has the scalar type
ScalarOutcome == recovered(body(cfg, [k \in {kV} |-> AsScalar], q, <<>>, q.Filter))

\* C17: a field of type sql.NullBool, sql.NullString, sql.NullInt64 or
\* sql.NullFloat64 has the operators, the validator and the converter of a field
\* of type bool, string, int64 or float64, so that every query on it is accepted
\* or refused, and compiled, as on the scalar field.
C17_NullableAsScalar ==
    pc \in {"ready", "done"} /\ IsTyped(cfg.Model) /\ IsNullable(TypeOfV) =>
        /\ fields[kV].FilterOps = AsScalar.FilterOps
        /\ fields[kV].ValidateFn = AsScalar.ValidateFn
        /\ fields[kV].CovertFn = AsScalar.CovertFn
        /\ Done =>
              /\ ret.kind = ScalarOutcome.kind
              /\ ret.pr.FilterExp = ScalarOutcome.pr.FilterExp

\* {"v": {"$like": "DC"}} refused on a sql.NullString field
C17_WitnessNullString ==
    /\ Done
    /\ cfg.Model = TypedModel(TNamed("sql.NullString"))
    /\ OneOperator(op(cfg, LIKE), vDC)
    /\ ret.kind = "error"
    /\ ScalarOutcome.kind = "ok"

-----------------------------------------------------------------------------
IsIntegerKind(t) == t.Kind \in IntKinds \cup UintKinds

\* the query is {"filter": {"v": w}}, w a value or an object of one operator that
\* integers have; the value it offers to V
OffersValue ==
    /\ Len(q.Filter) = 1
    /\ q.Filter[1][1] = kV
    /\ IsObj(q.Filter[1][2]) =>
          /\ Len(q.Filter[1][2].kids) = 1
          /\ q.Filter[1][2].kids[1][1] \in {op(cfg, o) : o \in Comparisons}

Offered == IF IsObj(q.Filter[1][2]) THEN q.Filter[1][2].kids[1][2] ELSE q.Filter[1][2]

\* a JSON number with no fractional part; a number below zero
IsWhole(v) == v.t = "float64" /\ ~v.frac
BelowZero(v) == v.t = "float64" /\ (v.n < 0 \/ v.big = "-1e19")

\* the argument a is an integer equal in value to the number v
SameInteger(a, v) == a.t = "int" /\ a.big = "" /\ v.big = "" /\ a.n = v.n

\* C18: a value offered to a field of an integer kind is accepted exactly when
\* it is a number without a fractional part, and not below zero for an unsigned
\* kind; the accepted value is bound as the integer equal to the number.
C18_IntegerValues ==
    Done /\ IsTyped(cfg.Model) /\ IsIntegerKind(TypeOfV) /\ OffersValue =>
        /\ ret.kind = "ok" <=>
              /\ IsWhole(Offered)
              /\ TypeOfV.Kind \in UintKinds => ~BelowZero(Offered)
        /\ ret.kind = "ok" =>
              /\ Len(ret.pr.FilterArgs) = 1
              /\ SameInteger(ret.pr.FilterArgs[1], Offered)

\* 1e19 accepted for an int field, and bound as the least int
C18_WitnessOutside ==
    /\ Done
    /\ cfg.Model = TypedModel(TInt)
    /\ q.Filter = <<<<kV, Big("1e19")>>>>
    /\ ret.kind = "ok"
    /\ ret.pr.FilterArgs = <<MinInt64>>

\* 2.0 accepted and bound as 2, for an int8 field
C18_WitnessTwo ==
    /\ Done
    /\ cfg.Model = TypedModel(TKind("int8"))
    /\ OneOperator(op(cfg, EQ), Num(2))
    /\ ret.kind = "ok"
    /\ ret.pr.FilterArgs = <<GoInt(2)>>

\* 1.5 refused for an int field, -1 refused for a uint field
C18_WitnessRefused ==
    /\ Done
    /\ ret.kind = "error"
    /\ \/ cfg.Model = TypedModel(TInt) /\ OneOperator(op(cfg, EQ), Frac(1))
       \/ cfg.Model = TypedModel(TUint) /\ OneOperator(op(cfg, EQ), Num(-1))

-----------------------------------------------------------------------------
\* the number v (a JSON number, or an int bound as an argument) is a value of the
\* integer kind k; int and uint have 64 bits on every build of Builds, 1e19 is
\* above the greatest int64 and below the greatest uint64
InRangeOfKind(v, k) ==
    CASE k = "int8"   -> v.big = "" /\ v.n >= -128 /\ v.n <= 127
      [] k = "uint8"  -> v.big = "" /\ v.n >= 0 /\ v.n <= 255
      [] k = "int16"  -> v.big = "" /\ v.n >= -32768 /\ v.n <= 32767
      [] k = "uint16" -> v.big = "" /\ v.n >= 0 /\ v.n <= 65535
      [] k \in {"int32", "int64", "int"} -> v.big \in {"", "MinInt64", "MaxInt64"}
      [] OTHER -> \/ v.big = "" /\ v.n >= 0
                  \/ v.big \in {"1e19", "MaxInt64"}

\* C19: a value accepted for a field of an integer kind is bound as an argument
\* within the range of that kind, and a number outside the range is refused.
C19_WithinKindRange ==
    Done /\ IsTyped(cfg.Model) /\ IsIntegerKind(TypeOfV) /\ OffersValue =>
        /\ ret.kind = "ok" =>
              /\ Len(ret.pr.FilterArgs) = 1
              /\ InRangeOfKind(ret.pr.FilterArgs[1], TypeOfV.Kind)
        /\ IsWhole(Offered) /\ ~InRangeOfKind(Offered, TypeOfV.Kind) => ret.kind = "error"

\* 300 accepted for an int8 field and bound as 300
C19_WitnessInt8 ==
    /\ Done
    /\ cfg.Model = TypedModel(TKind("int8"))
    /\ OneOperator(op(cfg, EQ), Num(300))
    /\ ret.kind = "ok"
    /\ ret.pr.FilterArgs = <<GoInt(300)>>

\* 127 accepted for an int8 field, within its range
C19_WitnessWithin ==
    /\ Done
    /\ cfg.Model = TypedModel(TKind("int8"))
    /\ OneOperator(op(cfg, EQ), Num(127))
    /\ ret.kind = "ok"
    /\ ret.pr.FilterArgs = <<GoInt(127)>>

-----------------------------------------------------------------------------
\* the tagged fields reachable in the struct type t: its own, and those of the
\* struct types of its untagged fields, behind any pointers
RECURSIVE TaggedFields(_)
TaggedFields(t) ==
    UNION {IF t.Fields[i].HasTag THEN {t.Fields[i]}
           ELSE IF indirect(t.Fields[i].Type).Kind = "struct"
                THEN TaggedFields(indirect(t.Fields[i].Type))
                ELSE {} : i \in DOMAIN t.Fields}

\* the models NewParser is to refuse
Refused(m) ==
    \/ m.Kind = "nil"
    \/ indirect(m).Kind # "struct"
    \/ \E f \in TaggedFields(indirect(m)) : GetSupportedOps(indirect(f.Type)) = {}

C20_WitnessModel ==
    /\ pc = "failed"
    /\ \/ cfg.Model = TNil /\ newErr = "rql: 'Model' is a required field"
       \/ cfg.Model = TPtr(TPtr(TInt)) /\ newErr = "rql: 'Model' must be a struct type"

\* built: an untagged interface field, and an embedded int, next to Name
C20_WitnessBuilt ==
    /\ Ok
    /\ q.Filter = <<<<kName, vDC>>>>
    /\ DOMAIN fields = {kName}
    /\ \/ cfg.Model = WithTags(TInterface, FALSE)
       \/ cfg.Model = TStruct(<<StructField(cID, TRUE, FALSE, <<>>, TDefined("ID", "int")),
                                fName>>)

-----------------------------------------------------------------------------
\* the query is {"filter": {"age": {K: 12}}}; its key K
OperatorOnAge ==
    /\ cfg.Model = UserModel
    /\ Len(q.Filter) = 1
    /\ q.Filter[1][1] = kAge
    /\ IsObj(q.Filter[1][2])
    /\ Len(q.Filter[1][2].kids) = 1
    /\ q.Filter[1][2].kids[1][2] = Num(12)

KeyOnAge == q.Filter[1][2].kids[1][1]

\* the query is {"filter": {K: [{"age": 12}, {"name": "DC"}]}}; its key K
GroupOfTwo ==
    /\ cfg.Model = UserModel
    /\ Len(q.Filter) = 1
    /\ q.Filter[1][2] = Arr(<<Obj(<<<<kAge, Num(12)>>>>), Obj(<<<<kName, vDC>>>>)>>)

GroupKey == q.Filter[1][1]

\* C21: under any operator prefix P, the key P+name in the operator object of a
\* field is accepted and rendered as the operator `name`, P+"or" and P+"and" are
\* the group keys, and a key with another prefix is refused.
C21_AnyPrefix ==
    /\ Done /\ OperatorOnAge =>
          IF \E o \in Comparisons : KeyOnAge = cfg.OpPrefix \o o
          THEN /\ ret.kind = "ok"
               /\ \A o \in Comparisons :
                     KeyOnAge = cfg.OpPrefix \o o =>
                         ret.pr.FilterExp = kAge \o <<" ">> \o opFormat[o] \o <<" ", "?">>
               /\ ret.pr.FilterArgs = <<GoInt(12)>>
          ELSE ret.kind = "error"
    /\ Done /\ GroupOfTwo =>
          IF \E o \in {OR, AND} : GroupKey = cfg.OpPrefix \o o
          THEN /\ ret.kind = "ok"
               /\ \A o \in {OR, AND} :
                     GroupKey = cfg.OpPrefix \o o =>
                         ret.pr.FilterExp =
                            <<"(">> \o kAge \o <<" ", "=", " ", "?", " ">> \o opFormat[o]
                                \o <<" ">> \o kName \o <<" ", "=", " ", "?", ")">>
          ELSE ret.kind = "error"

\* the prefix "op:": {"age": {"op:gte": 12}} is accepted with no operator in the text
C21_WitnessLong ==
    /\ Done
    /\ OperatorOnAge
    /\ cfg.OpPrefix = <<"o","p",":">>
    /\ KeyOnAge = <<"o","p",":">> \o GTE
    /\ ret.kind = "ok"
    /\ ret.pr.FilterExp = <<"a","g","e"," "," ","?">>

\* the prefix "@": {"age": {"@gte": 12}} gives age >= ?
C21_WitnessOne ==
    /\ Done
    /\ OperatorOnAge
    /\ cfg.OpPrefix = <<"@">>
    /\ KeyOnAge = <<"@">> \o GTE
    /\ ret.pr.FilterExp = <<"a","g","e"," ",">","="," ","?">>

-----------------------------------------------------------------------------
\* the model is struct { <name> string `rql:"filter"` } of the naming cases
IsNamed(m) ==
    /\ m.Kind = "struct"
    /\ Len(m.Fields) = 1
    /\ m.Fields[1].Name \in FieldNames
    /\ m.Fields[1].HasTag

FieldName == cfg.Model.Fields[1].Name

\* an underscore goes before the letter at position i of s: an uppercase letter
\* after the first position, preceded by a lowercase letter, or followed by a
\* lowercase letter while the character before it is a letter
WordStart(s, i) ==
    /\ i > 1
    /\ IsUpper(s[i])
    /\ \/ IsLower(s[i - 1])
       \/ i < Len(s) /\ IsLower(s[i + 1]) /\ IsLetter(s[i - 1])

\* s in lower case, with an underscore before each position of the set at
RECURSIVE Underscored(_, _, _)
Underscored(s, at, i) ==
    IF i > Len(s) THEN <<>>
    ELSE (IF i \in at THEN <<"_">> ELSE <<>>) \o <<ToLower(s[i])>> \o Underscored(s, at, i + 1)

\* C22: the column of a field name is the name in lower case with an underscore
\* before every uppercase letter, at any position after the first, that follows
\* a lowercase letter or precedes one while following a letter, and nowhere else.
C22_ColumnWords ==
    pc \in {"ready", "done"} /\ IsNamed(cfg.Model) =>
        DOMAIN fields =
            {Underscored(FieldName, {i \in DOMAIN FieldName : WordStart(FieldName, i)}, 1)}

\* C22, amended: the underscores go before the uppercase letters of C22 that are
\* not the last character of the name; the last character never gets one.
C22_ColumnInnerWords ==
    pc \in {"ready", "done"} /\ IsNamed(cfg.Model) =>
        DOMAIN fields =
            {Underscored(FieldName,
                         {i \in DOMAIN FieldName :
                             i < Len(FieldName) /\ WordStart(FieldName, i)}, 1)}

\* the field AaB is given the column aab
C22_WitnessLast ==
    /\ pc = "ready"
    /\ IsNamed(cfg.Model)
    /\ FieldName = <<"A", "a", "B">>
    /\ DOMAIN fields = {<<"a", "a", "b">>}

\* the field ABa1 is given the column a_ba1
C22_WitnessInner ==
    /\ pc = "ready"
    /\ IsNamed(cfg.Model)
    /\ FieldName = <<"A", "B", "a", "1">>
    /\ DOMAIN fields = {<<"a", "_", "b", "a", "1">>}

-----------------------------------------------------------------------------
\* the position in the joined string just before entry i of list
RECURSIVE StartOf(_, _)
StartOf(list, i) == IF i = 1 THEN 0 ELSE StartOf(list, i - 1) + Len(list[i - 1]) + 2

\* text is the entries of list, in their order, with ", " between neighbours
IsJoined(text, list) ==
    IF list = <<>> THEN text = <<>>
    ELSE /\ Len(text) = StartOf(list, Len(list)) + Len(list[Len(list)])
         /\ \A i \in DOMAIN list :
               /\ SubSeq(text, StartOf(list, i) + 1, StartOf(list, i) + Len(list[i])) = list[i]
               /\ i > 1 => SubSeq(text, StartOf(list, i) - 1, StartOf(list, i)) = <<",", " ">>

C23_WitnessEmpty ==
    /\ Ok
    /\ q.Select = <<>>
    /\ ret.pr.Select = <<>>

-----------------------------------------------------------------------------
\* the sort list that is compiled: the query's, DefaultSort when it has none
SortUsed == IF q.Sort = <<>> THEN cfg.DefaultSort ELSE q.Sort

-----------------------------------------------------------------------------
(* Parser.init step by step: one step of SpecScan is one iteration of the    *)
(* loop `for l.Len() > 0`.  An entry of todo is a struct field and the       *)
(* number of struct fields it is nested in.                                  *)

\* the deepest nesting at which the model still expands a struct field
MaxDepth == 4

Entries(flds, d) == [i \in DOMAIN flds |-> [f |-> flds[i], depth |-> d]]

ScanModels ==
    CtorModels \cup {UserModel}
        \cup {TNamed("Node"), TPtr(TNamed("Node")), TNamed("Embed"), TNamed("Ping"),
              TNamed("Link")}

InitScan ==
    /\ \E m \in ScanModels : \E sep \in {<<>>, <<".">>} : cfg = SchemaCfg(m, sep, <<>>)
    /\ q = Query(0, 0, <<>>, <<>>, <<>>)
    /\ fields = <<>>
    /\ pc = "new"
    /\ ret = [kind |-> "none", prNil |-> TRUE, pr |-> NilParams,
              errNil |-> TRUE, err |-> NoErr]
    /\ visit = <<>>
    /\ pool = <<>>
    /\ newErr = ""
    /\ mem = NoMem
    /\ gor = <<>>
    /\ todo = <<>>

\* NewParser up to the first loop of init: defaults(), then every field of the
\* model pushed to the front of the list
ScanStart ==
    /\ pc = "new"
    /\ IF defaultsErr(cfg) # ""
       THEN /\ newErr' = defaultsErr(cfg)
            /\ pc' = "failed"
            /\ UNCHANGED <<cfg, todo>>
       ELSE /\ cfg' = defaults(cfg)
            /\ todo' = Entries(Reverse(FieldsOf(indirect(cfg.Model))), 0)
            /\ pc' = "scan"
            /\ UNCHANGED newErr
    /\ UNCHANGED <<fields, q, ret, visit, pool, mem, gor>>

\* one iteration of init's second loop: the front of the list is removed and
\* parsed, expanded or dropped
ScanStep ==
    /\ pc = "scan"
    /\ todo # <<>>
    /\ todo[1].depth <= MaxDepth
    /\ LET f == todo[1].f
           rest == Tail(todo)
       IN  CASE f.HasTag ->
                  LET r == parseField(cfg, f)
                  IN  IF r.err # ""
                      THEN /\ newErr' = r.err
                           /\ pc' = "failed"
                           /\ fields' = <<>>
                           /\ todo' = rest
                      ELSE /\ fields' = [k \in DOMAIN fields \cup {r.f.Name} |->
                                            IF k = r.f.Name THEN r.f ELSE fields[k]]
                           /\ todo' = rest
                           /\ UNCHANGED <<newErr, pc>>
             [] ~f.HasTag /\ indirect(f.Type).Kind = "struct" ->
                  /\ todo' = Entries(Reverse(SubFields(cfg, f)), todo[1].depth + 1) \o rest
                  /\ UNCHANGED <<fields, newErr, pc>>
             [] OTHER ->
                  /\ todo' = rest
                  /\ UNCHANGED <<fields, newErr, pc>>
    /\ UNCHANGED <<cfg, q, ret, visit, pool, mem, gor>>

\* the list is empty: init returns nil and NewParser the parser
ScanEnd ==
    /\ pc = "scan"
    /\ todo = <<>>
    /\ pc' = "ready"
    /\ UNCHANGED <<cfg, fields, q, ret, visit, pool, newErr, mem, gor, todo>>

NextScan == ScanStart \/ ScanStep \/ ScanEnd

SpecScan == InitScan /\ [][NextScan]_vars

\* the struct types init can expand from the types ts: those of the untagged
\* fields, behind any pointers
RECURSIVE StructsFrom(_, _)
StructsFrom(ts, seen) ==
    IF ts = {} THEN seen
    ELSE LET t == CHOOSE x \in ts : TRUE
             u == indirect(t)
         IN  IF u.Kind # "struct" \/ u \in seen
             THEN StructsFrom(ts \ {t}, seen)
             ELSE StructsFrom((ts \ {t}) \cup
                                 {FieldsOf(u)[i].Type :
                                     i \in {j \in DOMAIN FieldsOf(u) : ~FieldsOf(u)[j].HasTag}},
                              seen \cup {u})

\* C25: NewParser terminates for every struct model.  A scan that ends expands
\* no struct type inside itself, so a field it holds is nested in fewer struct
\* fields than the model has struct types; a field nested deeper lies in a type
\* that refers to itself, which init expands again at every level, without end.
C25_InitTerminates ==
    pc = "scan" =>
        \A i \in DOMAIN todo :
            todo[i].depth < Cardinality(StructsFrom({cfg.Model}, {}))

\* type Node struct { ...; Next *Node }: init holds Next.Next.Next.Next.Next
C25_WitnessNode ==
    /\ pc = "scan"
    /\ cfg.Model = TNamed("Node")
    /\ cfg.FieldSep = <<".">>
    /\ todo # <<>>
    /\ todo[1].depth = MaxDepth + 1
    /\ Len(todo[1].f.Name) = 4 * (MaxDepth + 2) + MaxDepth + 1
    /\ fields = <<>>

-----------------------------------------------------------------------------
\* the places of the tagged fields init reaches in the struct type t
RECURSIVE TaggedPaths(_)
TaggedPaths(t) ==
    UNION {IF t.Fields[i].HasTag THEN {<<i>>}
           ELSE IF indirect(t.Fields[i].Type).Kind = "struct"
                THEN {<<i>> \o p : p \in TaggedPaths(indirect(t.Fields[i].Type))}
                ELSE {} : i \in DOMAIN t.Fields}

\* the column names of the schema, as fmtOp and sort render them
Columns == {colName(cfg, k) : k \in DOMAIN fields}

\* C26: in every schema NewParser builds, distinct tagged fields have distinct
\* column names after separator normalization: the schema has as many column
\* names as the model has tagged fields, none overwritten or shadowed.
C26_DistinctColumns ==
    pc \in {"ready", "done"} =>
        Cardinality(Columns) = Cardinality(TaggedPaths(indirect(cfg.Model)))

\* AddressName next to Address.Name with separator ".": two keys, one column
C26_WitnessNested ==
    /\ Ok
    /\ cfg.FieldSep = <<".">>
    /\ DOMAIN fields = {Column(cAddressName), Column(cAddress) \o <<".">> \o Column(cName)}
    /\ Columns = {Column(cAddressName)}
    /\ q.Filter = <<<<Column(cAddress) \o <<".">> \o Column(cName), vDC>>>>
    /\ ret.pr.FilterExp = Column(cAddressName) \o <<" ", "=", " ", "?">>

\* Nick with column=name is overwritten by Name: the schema has the string only
C26_WitnessOverwritten ==
    /\ Ok
    /\ cfg.Model = TStruct(<<fName,
                             StructField(cNick, FALSE, TRUE,
                                         <<Opt("filter"), Opt("sort"), OptColumn(Column(cName))>>,
                                         TInt)>>)
    /\ DOMAIN fields = {kName}
    /\ fields[kName].Type = TString
    /\ ~fields[kName].Sortable
    /\ q.Filter = <<<<kName, vDC>>>>

\* a schema of four tagged fields and four columns
C26_WitnessDistinct ==
    /\ pc = "ready"
    /\ cfg.Model = UserModel
    /\ Cardinality(Columns) = 4

-----------------------------------------------------------------------------
\* C27: in every schema NewParser builds, a field has operators in FilterOps
\* only if it is filterable; a field tagged only `sort` has none.
C27_OpsOnlyIfFilterable ==
    pc \in {"ready", "done"} =>
        \A k \in DOMAIN fields : fields[k].FilterOps # {} => fields[k].Filterable

\* Address.ZIP.Code, tagged `rql:"sort"`: an integer's six operators
C27_WitnessSortOnly ==
    /\ pc = "ready"
    /\ cfg.Model = UserModel
    /\ LET f == fields[kAddressZipCode(cfg)]
       IN  /\ f.Sortable
           /\ ~f.Filterable
           /\ f.FilterOps = {op(cfg, o) : o \in {EQ, NEQ, LT, LTE, GT, GTE}}

-----------------------------------------------------------------------------
\* C28: every successful Params has Offset >= 0 and 0 < Limit <= LimitMaxValue,
\* for every configuration NewParser accepts and every query.
C28_LimitInRange ==
    Done /\ ret.kind = "ok" =>
        /\ ret.pr.Offset >= 0
        /\ 0 < ret.pr.Limit
        /\ ret.pr.Limit <= cfg.LimitMaxValue

\* DefaultLimit 5 above LimitMaxValue 3, and a query that leaves limit out
C28_WitnessAbove ==
    /\ Ok
    /\ cfg.DefaultLimit = 5
    /\ cfg.LimitMaxValue = 3
    /\ q.Limit = 0
    /\ ret.pr.Limit = 5

\* a negative DefaultLimit
C28_WitnessNegative ==
    /\ Ok
    /\ cfg.DefaultLimit = 0 - 1
    /\ cfg.LimitMaxValue = DefaultMaxLimit
    /\ q.Limit = 0
    /\ ret.pr.Limit = 0 - 1

\* a limit given in the query, within the configuration's range
C28_WitnessGiven ==
    /\ Ok
    /\ cfg.DefaultLimit = 5
    /\ cfg.LimitMaxValue = 3
    /\ q.Limit = 3
    /\ q.Offset = 1
    /\ ret.pr.Limit = 3

-----------------------------------------------------------------------------
\* the parentheses of text are balanced: none closes what was not opened, and
\* all are closed at the end
Balanced(text) ==
    /\ \A i \in DOMAIN text :
          Count(SubSeq(text, 1, i), ")") <= Count(SubSeq(text, 1, i), "(")
    /\ Count(text, ")") = Count(text, "(")

\* every occurrence of the connective w in text stands after the end of a
\* predicate or group and before the start of one
BothSides(text, w) ==
    \A i \in DOMAIN text :
        HasPrefixAt(text, i, w) =>
            /\ i > 1
            /\ text[i - 1] \in {"?", ")"}
            /\ i + Len(w) <= Len(text)
            /\ IsLetter(text[i + Len(w)]) \/ text[i + Len(w)] = "("

WellFormed(text) ==
    /\ Balanced(text)
    /\ \A i \in DOMAIN text : ~HasPrefixAt(text, i, <<"(", ")">>)
    /\ BothSides(text, cAND)
    /\ BothSides(text, cOR)

\* the document has an empty object or an empty array in it
RECURSIVE HasEmpty(_)
HasEmpty(prs) ==
    \E i \in DOMAIN prs :
        /\ prs[i][2].t \in {"map", "slice"}
        /\ prs[i][2].kids = <<>> \/ HasEmpty(prs[i][2].kids)

\* C29: the FilterExp of every successfully parsed filter, those with empty
\* operator objects, empty group elements and empty group arrays included, is
\* well-formed: every ` AND ` and ` OR ` has a predicate or a parenthesized
\* group on both sides, the parentheses are balanced, and no pair is empty.
C29_WellFormed == Ok => WellFormed(ret.pr.FilterExp)

\* {"age": 12, "$or": [{}]} gives `age = ? AND `
C29_WitnessDangling ==
    /\ Ok
    /\ q.Filter = <<<<kAge, Num(12)>>, Group(cfg, OR, <<Obj(<<>>)>>)>>
    /\ ret.pr.FilterExp = kAge \o <<" ", "=", " ", "?">> \o cAND
    /\ ret.pr.FilterArgs = <<GoInt(12)>>

\* {"$or": [{"age": 12}, {}]} gives `(age = ? OR )`
C29_WitnessInGroup ==
    /\ Ok
    /\ q.Filter = <<Group(cfg, OR, <<Obj(<<<<kAge, Num(12)>>>>), Obj(<<>>)>>)>>
    /\ ret.pr.FilterExp = <<"(">> \o kAge \o <<" ", "=", " ", "?">> \o cOR \o <<")">>

\* a filter with nothing empty in it, of two groups, is well-formed
C29_WitnessFull ==
    /\ Ok
    /\ ~HasEmpty(q.Filter)
    /\ Count(ret.pr.FilterExp, "(") = 2
    /\ WellFormed(ret.pr.FilterExp)

-----------------------------------------------------------------------------
(* The meaning of a filter document and of its expression, as trees of       *)
(* conjunctions and disjunctions over the predicates.  The predicates are    *)
(* numbered in the order of visit, which is the order of the placeholders.   *)

Pred(n)   == [node |-> "pred", n |-> n, of |-> <<>>]
AllOf(ts) == [node |-> "and", n |-> 0, of |-> ts]
AnyOf(ts) == [node |-> "or", n |-> 0, of |-> ts]

\* the truth value of the tree t when a gives the truth value of each predicate
RECURSIVE Holds(_, _)
Holds(t, a) ==
    CASE t.node = "pred" -> a[t.n]
      [] t.node = "and" -> \A i \in DOMAIN t.of : Holds(t.of[i], a)
      [] OTHER -> \E i \in DOMAIN t.of : Holds(t.of[i], a)

\* the number of predicates of the first n entries of a document
PredsBefore(prs, n) == Len(PredsOfPairs(SubSeq(prs, 1, n - 1)))

\* the number of predicates of the first n elements of a group array
TermsBefore(elts, n) ==
    Len(ConcatAll([j \in 1..(n - 1) |-> PredsOfPairs(elts[j].kids)]))

\* the document's meaning: an object is the conjunction of its entries, `$or` the
\* disjunction and `$and` the conjunction of the array's documents, an operator
\* object the conjunction of its operators; off predicates come before it
RECURSIVE MeaningOfPairs(_, _)
RECURSIVE MeaningOfEntry(_, _)
MeaningOfEntry(e, off) ==
    LET k == e[1]
        v == e[2]
    IN  IF IsGroupKey(k)
        THEN LET terms == [j \in DOMAIN v.kids |->
                             MeaningOfPairs(Elems(v)[j].kids, off + TermsBefore(Elems(v), j))]
             IN  IF k = op(cfg, OR) THEN AnyOf(terms) ELSE AllOf(terms)
        ELSE IF IsObj(v)
             THEN AllOf([j \in DOMAIN v.kids |-> Pred(off + j)])
             ELSE Pred(off + 1)

MeaningOfPairs(prs, off) ==
    AllOf([i \in DOMAIN prs |-> MeaningOfEntry(prs[i], off + PredsBefore(prs, i))])

\* the expression read as SQL reads it, AND binding tighter than OR, from the
\* character at i on, k placeholders having been read: the tree, and the
\* position and the number of placeholders where the reading stops
RECURSIVE SqlOr(_, _, _)
RECURSIVE SqlOrRest(_, _)
RECURSIVE SqlAnd(_, _, _)
RECURSIVE SqlAndRest(_, _)
RECURSIVE SqlOperand(_, _, _)

SqlOperand(text, i, k) ==
    IF i <= Len(text) /\ text[i] = "("
    THEN LET r == SqlOr(text, i + 1, k)
         IN  [r EXCEPT !.i = @ + 1, !.ok = @ /\ HasPrefixAt(text, r.i, <<")">>)]
    ELSE LET j == NthIndex(text, "?", 1, i)
         IN  IF j = 0 THEN [t |-> Pred(0), i |-> Len(text) + 1, k |-> k, ok |-> FALSE]
             ELSE [t |-> Pred(k + 1), i |-> j + 1, k |-> k + 1, ok |-> TRUE]

SqlAndRest(text, r) ==
    IF HasPrefixAt(text, r.i, cAND)
    THEN LET g == SqlOperand(text, r.i + Len(cAND), r.k)
         IN  SqlAndRest(text, [g EXCEPT !.t = AllOf(<<r.t, @>>), !.ok = r.ok /\ @])
    ELSE r

SqlAnd(text, i, k) == SqlAndRest(text, SqlOperand(text, i, k))

SqlOrRest(text, r) ==
    IF HasPrefixAt(text, r.i, cOR)
    THEN LET g == SqlAnd(text, r.i + Len(cOR), r.k)
         IN  SqlOrRest(text, [g EXCEPT !.t = AnyOf(<<r.t, @>>), !.ok = r.ok /\ @])
    ELSE r

SqlOr(text, i, k) == SqlOrRest(text, SqlAnd(text, i, k))

\* the expression is read to its end, and has the truth value of the tree t
\* whatever the truth values of its n predicates
SameMeaning(text, t, n) ==
    LET r == SqlOr(text, 1, 0)
    IN  /\ r.ok
        /\ r.i = Len(text) + 1
        /\ r.k = n
        /\ \A a \in [1..n -> BOOLEAN] : Holds(r.t, a) = Holds(t, a)

\* C30: for every successfully parsed filter with no empty object or array in
\* it, FilterExp read with SQL precedence has the meaning of the document,
\* whatever the predicates' truth values, at every depth, groups of one
\* document (written without parentheses) included.
C30_SameMeaning ==
    Ok /\ visit # <<>> /\ ~HasEmpty(visit) =>
        SameMeaning(ret.pr.FilterExp, MeaningOfPairs(visit, 0), Len(PredsOfPairs(visit)))

\* {"name": "DC", "$or": [{"age": 12}, {"age": 12, "name": "DC"}]}: an OR of a
\* predicate and a conjunction, inside a conjunction
C30_Witness ==
    /\ Ok
    /\ Len(visit) = 2
    /\ \E i \in 1..2 :
          /\ visit[i][1] = op(cfg, OR)
          /\ IsArr(visit[i][2])
          /\ Len(visit[i][2].kids) = 2
          /\ \E j \in 1..2 : Len(Elems(visit[i][2])[j].kids) = 2
          /\ visit[3 - i][1] = kName
    /\ Len(PredsOfPairs(visit)) = 4
    /\ Count(ret.pr.FilterExp, "(") = 1

\* a group of one document, written without parentheses, inside a group of two
C30_WitnessSingle ==
    /\ Ok
    /\ ~HasEmpty(visit)
    /\ \E g, h \in Range(GroupEntries(visit)) :
          /\ Len(g[2].kids) = 2
          /\ Len(h[2].kids) = 1
          /\ \E i \in 1..2 : Elems(g[2])[i].kids = <<h>>

====
